---- MODULE Spec2Model ----
(***************************************************************************)
(* Model of the qrank-builder pageview stage (cmd/qrank-builder):          *)
(* readPageviews / emitPageviews, formatLine, combineCounts / writeCount,  *)
(* readMonthlyPageviews, buildMonthlyPageviews and processPageviews.       *)
(*                                                                         *)
(* Go strings are modelled as what they are: sequences of bytes (0..255).  *)
(***************************************************************************)
EXTENDS Integers, Sequences, FiniteSets, TLC

VARIABLES
    testRun,    \* the testRun flag handed down from computeQRank
    input,      \* input[d]: the lines of day d's log (a sequence of byte strings)
    rd,         \* rd[d]: day worker d (readPageviewsFile / readPageviews)
    ch,         \* the line channel ch: [buf, closed]
    rg,         \* readMonthlyPageviews and its errgroup: [pc, err, cancelled]
    sorter,     \* the external sorter: [pc, data]
    outChan,    \* the sorter's output channel: [buf, closed]
    errChan,    \* the sorter's error channel: [buf, closed]
    comb,       \* combineCounts: [pc, lastKey, lastCount, err]
    w,          \* the lines combineCounts has written to its io.Writer
    bg,         \* the errgroup of buildMonthlyPageviews: [err, cancelled]
    ctx,        \* TRUE when the context handed to buildMonthlyPageviews is cancelled
    build,      \* buildMonthlyPageviews: [pc, year, month, ret, err, ...]
    fs,         \* the output directory: path -> file
    faults,     \* the I/O failures the environment has produced in the call
    proc,       \* processPageviews: [pc, i, paths, err, ...]
    cq,         \* computeQRank and the pipeline it runs: [pc, storage, ...]
    fl,         \* a formatLine call: [pc, lang, site, title, value, line, ...]
    util,       \* a call of a helper of util.go: [pc, arguments, results]
    up,         \* an upload call and the bucket: [pc, bucket, puts, err, ...]
    pt,         \* a paint call, its tasks, its channel and its Painter
    log         \* observations kept for the properties (history of the run)

vars == <<testRun, input, rd, ch, rg, sorter, outChan, errChan, comb, w, bg,
          ctx, build, fs, faults, proc, cq, fl, util, up, pt, log>>

-----------------------------------------------------------------------------
(* Byte strings                                                            *)

AsciiLow == " !\"#$%&'()*+,-./0123456789:;<=>?@ABCDEFGHIJKLMNOPQRSTUVWXYZ[\\]^_"
AsciiHigh == "abcdefghijklmnopqrstuvwxyz{|}~"

\* The byte of a one-character ASCII literal.
Ord(c) ==
    IF c = "\t" THEN 9
    ELSE IF \E i \in 1..Len(AsciiLow) : SubSeq(AsciiLow, i, i) = c
         THEN 31 + (CHOOSE i \in 1..Len(AsciiLow) : SubSeq(AsciiLow, i, i) = c)
         ELSE 96 + (CHOOSE i \in 1..Len(AsciiHigh) : SubSeq(AsciiHigh, i, i) = c)

\* The bytes of an ASCII string literal of the source.
B(s) == [i \in 1..Len(s) |-> Ord(SubSeq(s, i, i))]

\* s[i:j] of Go (0-based, j exclusive).
Slice(s, i, j) == SubSeq(s, i + 1, j)

\* strings.IndexByte: 0-based index of the first b in s, or -1.
IndexByte(s, b) ==
    IF \E i \in 1..Len(s) : s[i] = b
    THEN (CHOOSE i \in 1..Len(s) : s[i] = b /\ \A j \in 1..(i - 1) : s[j] # b) - 1
    ELSE -1

\* unicode.IsSpace on the ASCII range: '\t', '\n', '\v', '\f', '\r', ' '.
IsSpace(b) == b \in {9, 10, 11, 12, 13, 32}

RECURSIVE FieldsFrom(_, _, _)
FieldsFrom(s, i, cur) ==
    IF i > Len(s) THEN (IF cur = <<>> THEN <<>> ELSE <<cur>>)
    ELSE IF IsSpace(s[i])
         THEN IF cur = <<>> THEN FieldsFrom(s, i + 1, <<>>)
              ELSE <<cur>> \o FieldsFrom(s, i + 1, <<>>)
         ELSE FieldsFrom(s, i + 1, Append(cur, s[i]))

\* strings.Fields: the maximal runs of non-space bytes.
Fields(s) == FieldsFrom(s, 1, <<>>)

RECURSIVE SplitFrom(_, _, _, _)
SplitFrom(s, sep, i, cur) ==
    IF i > Len(s) THEN <<cur>>
    ELSE IF s[i] = sep THEN <<cur>> \o SplitFrom(s, sep, i + 1, <<>>)
         ELSE SplitFrom(s, sep, i + 1, Append(cur, s[i]))

\* strings.Split(s, sep) for a one-byte separator: n separators give n+1 parts.
Split(s, sep) == SplitFrom(s, sep, 1, <<>>)

IsDigit(b) == 48 <= b /\ b <= 57

\* The digits of a decimal literal the model can hold in an integer.
MaxDigits == 9

RECURSIVE DigitsVal(_, _)
DigitsVal(s, acc) ==
    IF s = <<>> THEN acc ELSE DigitsVal(Tail(s), acc * 10 + (Head(s) - 48))

ParseSign(s) == IF s # <<>> /\ s[1] \in {43, 45} THEN 1 ELSE 0

\* strconv.ParseInt(s, 10, 64): err == nil.  An optional sign, then at least
\* one digit and nothing else.  Literals too long for the model's integers are
\* reported as out of range.
ParseIntOk(s) ==
    LET d == SubSeq(s, ParseSign(s) + 1, Len(s))
    IN  /\ d # <<>>
        /\ \A i \in 1..Len(d) : IsDigit(d[i])
        /\ Len(d) <= MaxDigits

\* strconv.ParseInt(s, 10, 64): the value when err == nil.
ParseIntVal(s) ==
    LET d == SubSeq(s, ParseSign(s) + 1, Len(s))
        v == DigitsVal(d, 0)
    IN  IF s[1] = 45 THEN 0 - v ELSE v

RECURSIVE NatDigits(_)
NatDigits(n) ==
    IF n < 10 THEN <<48 + n>> ELSE Append(NatDigits(n \div 10), 48 + (n % 10))

\* strconv.FormatInt(n, 10).
FormatInt(n) == IF n < 0 THEN <<45>> \o NatDigits(0 - n) ELSE NatDigits(n)

IsHex(b) == IsDigit(b) \/ (97 <= b /\ b <= 102) \/ (65 <= b /\ b <= 70)

UnHex(b) == IF IsDigit(b) THEN b - 48
            ELSE IF 97 <= b /\ b <= 102 THEN b - 97 + 10
            ELSE b - 65 + 10

\* url.QueryUnescape: err == nil iff every '%' is followed by two hex digits.
QueryUnescapeOk(s) ==
    \A i \in 1..Len(s) :
        s[i] = 37 => (i + 2 <= Len(s) /\ IsHex(s[i + 1]) /\ IsHex(s[i + 2]))

RECURSIVE UnescapeFrom(_, _)
UnescapeFrom(s, i) ==
    IF i > Len(s) THEN <<>>
    ELSE IF s[i] = 37
         THEN <<UnHex(s[i + 1]) * 16 + UnHex(s[i + 2])>> \o UnescapeFrom(s, i + 3)
         ELSE IF s[i] = 43 THEN <<32>> \o UnescapeFrom(s, i + 1)
         ELSE <<s[i]>> \o UnescapeFrom(s, i + 1)

\* url.QueryUnescape: the result when err == nil ("%XX" is a byte, '+' a space).
QueryUnescape(s) == UnescapeFrom(s, 1)

IsCont(s, i) == i <= Len(s) /\ 128 <= s[i] /\ s[i] <= 191

\* The length of the well-formed UTF-8 encoding that starts at s[i], or 0.
RuneLen(s, i) ==
    LET b == s[i] IN
    IF b < 128 THEN 1
    ELSE IF 194 <= b /\ b <= 223 THEN (IF IsCont(s, i + 1) THEN 2 ELSE 0)
    ELSE IF 224 <= b /\ b <= 239
         THEN IF /\ IsCont(s, i + 1) /\ IsCont(s, i + 2)
                 /\ (b = 224 => s[i + 1] >= 160)
                 /\ (b = 237 => s[i + 1] <= 159)
              THEN 3 ELSE 0
    ELSE IF 240 <= b /\ b <= 244
         THEN IF /\ IsCont(s, i + 1) /\ IsCont(s, i + 2) /\ IsCont(s, i + 3)
                 /\ (b = 240 => s[i + 1] >= 144)
                 /\ (b = 244 => s[i + 1] <= 143)
              THEN 4 ELSE 0
    ELSE 0

RECURSIVE ValidFrom(_, _)
ValidFrom(s, i) ==
    IF i > Len(s) THEN TRUE
    ELSE IF RuneLen(s, i) = 0 THEN FALSE
    ELSE ValidFrom(s, i + RuneLen(s, i))

\* utf8.ValidString.
ValidString(s) == ValidFrom(s, 1)

\* The code point encoded by the n well-formed bytes at s[i].
RuneAt(s, i, n) ==
    IF n = 1 THEN s[i]
    ELSE IF n = 2 THEN (s[i] - 192) * 64 + (s[i + 1] - 128)
    ELSE IF n = 3 THEN (s[i] - 224) * 4096 + (s[i + 1] - 128) * 64 + (s[i + 2] - 128)
    ELSE (s[i] - 240) * 262144 + (s[i + 1] - 128) * 4096
         + (s[i + 2] - 128) * 64 + (s[i + 3] - 128)

RECURSIVE RunesFrom(_, _)
RunesFrom(s, i) ==
    IF i > Len(s) THEN <<>>
    ELSE IF RuneLen(s, i) = 0 THEN <<65533>> \o RunesFrom(s, i + 1)
    ELSE <<RuneAt(s, i, RuneLen(s, i))>> \o RunesFrom(s, i + RuneLen(s, i))

\* The code points of a string; a malformed byte decodes to U+FFFD.
Runes(s) == RunesFrom(s, 1)

\* utf8.EncodeRune.
EncodeRune(r) ==
    IF r < 128 THEN <<r>>
    ELSE IF r < 2048 THEN <<192 + (r \div 64), 128 + (r % 64)>>
    ELSE IF r < 65536
         THEN <<224 + (r \div 4096), 128 + ((r \div 64) % 64), 128 + (r % 64)>>
    ELSE <<240 + (r \div 262144), 128 + ((r \div 4096) % 64),
           128 + ((r \div 64) % 64), 128 + (r % 64)>>

RECURSIVE EncodeRunes(_)
EncodeRunes(rs) ==
    IF rs = <<>> THEN <<>> ELSE EncodeRune(Head(rs)) \o EncodeRunes(Tail(rs))

RECURSIVE Concat(_)
Concat(ss) == IF ss = <<>> THEN <<>> ELSE Head(ss) \o Concat(Tail(ss))

-----------------------------------------------------------------------------
(* formatLine (util.go)                                                    *)

\* The ASCII string literals of the source, as bytes.
S == [s \in {"", "und", "wikidatawiki", "wikidata", "wikimaniawiki", "wikimania",
             "az", "als", "gsw", "bat_smg", "bat-smg", "sgs", "be_x_old",
             "be-tarask", "cbk_zam", "cbk-zam", "cbk-x-zam", "commons",
             "fiu_vro", "fiu-vro", "vro", "incubator", "Wp", "wp", "map_bms",
             "map-bms", "jv-x-bms", "media", "mediawiki", "meta", "metawiki",
             "roa_rup", "roa-rup", "rup", "roa_tara", "roa-tara", "nap-x-tara",
             "simple", "en-x-simple", "sources", "wikisource", "species",
             "wikispecies", "nds_nl", "nds-nl", "nds-NL", "tr", "zh_classical",
             "zh-classical", "lzh", "zh_min_nan", "zh-min-nan", "nan", "zh_yue",
             "zh-yue", "yue", "en-wg.wikipedia", "pageviews-", ".br", ".tmp"}
      |-> B(s)]

\* unicode.ToLower (simple lower-casing) on the ranges the model's texts use:
\* ASCII, Latin-1, Latin Extended-A, Cyrillic.
ToLowerRune(r) ==
    IF 65 <= r /\ r <= 90 THEN r + 32
    ELSE IF 192 <= r /\ r <= 222 /\ r # 215 THEN r + 32
    ELSE IF r = 304 THEN 105
    ELSE IF /\ ((256 <= r /\ r <= 303) \/ (306 <= r /\ r <= 311) \/ (330 <= r /\ r <= 375))
            /\ r % 2 = 0 THEN r + 1
    ELSE IF 313 <= r /\ r <= 328 /\ r % 2 = 1 THEN r + 1
    ELSE IF 1040 <= r /\ r <= 1071 THEN r + 32
    ELSE r

\* unicode.TurkishCase.ToLower without the entry for 'I'.
TurkishToLowerRuneNoDotless(r) ==
    IF r = 304 THEN 105 ELSE ToLowerRune(r)

\* unicode.TurkishCase.ToLower (unicode.AzeriCase is the same table):
\* 'I' gives dotless U+0131, U+0130 gives 'i', anything else unicode.ToLower.
TurkishToLowerRune(r) ==
    IF r = 73 THEN 305 ELSE IF r = 304 THEN 105 ELSE ToLowerRune(r)

\* cases.Fold (full case folding) of one code point: U+00DF gives "ss",
\* U+0130 gives 'i' followed by U+0307, anything else its lower case.
FoldRune(r) ==
    IF r = 223 THEN <<115, 115>>
    ELSE IF r = 304 THEN <<105, 775>>
    ELSE <<ToLowerRune(r)>>

RECURSIVE MapRunes(_, _)
MapRunes(rs, turkish) ==
    IF rs = <<>> THEN <<>>
    ELSE <<IF turkish THEN TurkishToLowerRune(Head(rs)) ELSE ToLowerRune(Head(rs))>>
         \o MapRunes(Tail(rs), turkish)

\* strings.ToLower.
ToLower(s) == EncodeRunes(MapRunes(Runes(s), FALSE))

\* strings.ToLowerSpecial(unicode.TurkishCase, s).
ToLowerSpecial(s) == EncodeRunes(MapRunes(Runes(s), TRUE))

RECURSIVE FoldRunes(_)
FoldRunes(rs) ==
    IF rs = <<>> THEN <<>> ELSE FoldRune(Head(rs)) \o FoldRunes(Tail(rs))

\* A combining mark (canonical combining class not 0): U+0300..U+036F.
IsMark(r) == 768 <= r /\ r <= 879

\* The canonical composition of a starter and a mark, or 0 when there is none
\* (diaeresis, acute and macron on the vowels).
Compose(b, m) ==
    IF m = 776 THEN
        (IF b = 97 THEN 228 ELSE IF b = 101 THEN 235 ELSE IF b = 105 THEN 239
         ELSE IF b = 111 THEN 246 ELSE IF b = 117 THEN 252 ELSE 0)
    ELSE IF m = 769 THEN
        (IF b = 97 THEN 225 ELSE IF b = 101 THEN 233 ELSE IF b = 105 THEN 237
         ELSE IF b = 111 THEN 243 ELSE IF b = 117 THEN 250 ELSE 0)
    ELSE IF m = 772 THEN
        (IF b = 97 THEN 257 ELSE IF b = 101 THEN 275 ELSE IF b = 105 THEN 299
         ELSE IF b = 111 THEN 333 ELSE IF b = 117 THEN 363 ELSE 0)
    ELSE 0

\* One segment (a starter and the marks that follow it) in NFC.
ComposeSegment(seg) ==
    IF Len(seg) >= 2 /\ ~IsMark(seg[1]) /\ Compose(seg[1], seg[2]) # 0
    THEN <<Compose(seg[1], seg[2])>> \o SubSeq(seg, 3, Len(seg))
    ELSE seg

RECURSIVE SegmentsFrom(_, _, _)
SegmentsFrom(rs, i, cur) ==
    IF i > Len(rs) THEN (IF cur = <<>> THEN <<>> ELSE <<ComposeSegment(cur)>>)
    ELSE IF IsMark(rs[i]) \/ cur = <<>>
         THEN SegmentsFrom(rs, i + 1, Append(cur, rs[i]))
         ELSE <<ComposeSegment(cur)>> \o SegmentsFrom(rs, i + 1, <<rs[i]>>)

\* norm.Iter over norm.NFC: the segments it.Next() returns, as bytes.
NFCSegments(s) ==
    LET segs == SegmentsFrom(s, 1, <<>>)
    IN  [i \in 1..Len(segs) |-> EncodeRunes(segs[i])]

\* caser.String(title), the text the iterator is initialised with.
caser(title) == FoldRunes(Runes(title))

\* util.go:200-209: every segment whose first byte is <= 0x20 becomes '_'.
normTitle(title) ==
    LET segs == NFCSegments(caser(title))
    IN  Concat([i \in 1..Len(segs) |->
                   IF segs[i][1] > 32 THEN segs[i] ELSE <<95>>])

\* strings.SplitN(s, "/", 3).
SplitN3(s) ==
    LET i == IndexByte(s, 47) IN
    IF i < 0 THEN <<s>>
    ELSE LET rest == Slice(s, i + 1, Len(s))
             j == IndexByte(rest, 47)
         IN  IF j < 0 THEN <<Slice(s, 0, i), rest>>
             ELSE <<Slice(s, 0, i), Slice(rest, 0, j), Slice(rest, j + 1, Len(rest))>>

\* The switch on lang without `case "roa-tara"`.
langSwitchNoRoaTara(lang, site, title) ==
    LET keep == [lang |-> lang, site |-> site, title |-> title]
        to(l) == [keep EXCEPT !.lang = S[l]]
        und(st) == [keep EXCEPT !.lang = S["und"], !.site = S[st]]
    IN
    IF lang = S[""] THEN
        [keep EXCEPT !.lang = S["und"],
                     !.site = IF site = S["wikidatawiki"] THEN S["wikidata"]
                              ELSE IF site = S["wikimaniawiki"] THEN S["wikimania"]
                              ELSE site]
    ELSE IF lang = S["az"] THEN [keep EXCEPT !.title = ToLowerSpecial(title)]
    ELSE IF lang = S["als"] THEN to("gsw")
    ELSE IF lang \in {S["bat_smg"], S["bat-smg"]} THEN to("sgs")
    ELSE IF lang = S["be_x_old"] THEN to("be-tarask")
    ELSE IF lang \in {S["cbk_zam"], S["cbk-zam"]} THEN to("cbk-x-zam")
    ELSE IF lang = S["commons"] THEN und("commons")
    ELSE IF lang \in {S["fiu_vro"], S["fiu-vro"]} THEN to("vro")
    ELSE IF lang = S["incubator"] THEN
        LET parts == SplitN3(title) IN
        IF /\ Len(parts) = 3
           /\ parts[1] \in {S["Wp"], S["wp"]}
           /\ Len(parts[2]) < 20
        THEN [keep EXCEPT !.lang = ToLower(parts[2]), !.title = parts[3]]
        ELSE keep
    ELSE IF lang \in {S["map_bms"], S["map-bms"]} THEN to("jv-x-bms")
    ELSE IF lang = S["media"] THEN und("mediawiki")
    ELSE IF lang = S["meta"] THEN und("metawiki")
    ELSE IF lang \in {S["roa_rup"], S["roa-rup"]} THEN to("rup")
    ELSE IF lang = S["roa_tara"] THEN to("nap-x-tara")
    ELSE IF lang = S["simple"] THEN to("en-x-simple")
    ELSE IF lang = S["sources"] THEN und("wikisource")
    ELSE IF lang = S["species"] THEN und("wikispecies")
    ELSE IF lang \in {S["nds_nl"], S["nds-nl"]} THEN to("nds-NL")
    ELSE IF lang = S["tr"] THEN [keep EXCEPT !.title = ToLowerSpecial(title)]
    ELSE IF lang \in {S["zh_classical"], S["zh-classical"]} THEN to("lzh")
    ELSE IF lang \in {S["zh_min_nan"], S["zh-min-nan"]} THEN to("nan")
    ELSE IF lang \in {S["zh_yue"], S["zh-yue"]} THEN to("yue")
    ELSE keep

\* The switch on lang with `lang = parts[1]` in place of
\* `lang = strings.ToLower(parts[1])`.
langSwitchKeepCase(lang, site, title) ==
    LET keep == [lang |-> lang, site |-> site, title |-> title]
        to(l) == [keep EXCEPT !.lang = S[l]]
        und(st) == [keep EXCEPT !.lang = S["und"], !.site = S[st]]
    IN
    IF lang = S[""] THEN
        [keep EXCEPT !.lang = S["und"],
                     !.site = IF site = S["wikidatawiki"] THEN S["wikidata"]
                              ELSE IF site = S["wikimaniawiki"] THEN S["wikimania"]
                              ELSE site]
    ELSE IF lang = S["az"] THEN [keep EXCEPT !.title = ToLowerSpecial(title)]
    ELSE IF lang = S["als"] THEN to("gsw")
    ELSE IF lang \in {S["bat_smg"], S["bat-smg"]} THEN to("sgs")
    ELSE IF lang = S["be_x_old"] THEN to("be-tarask")
    ELSE IF lang \in {S["cbk_zam"], S["cbk-zam"]} THEN to("cbk-x-zam")
    ELSE IF lang = S["commons"] THEN und("commons")
    ELSE IF lang \in {S["fiu_vro"], S["fiu-vro"]} THEN to("vro")
    ELSE IF lang = S["incubator"] THEN
        LET parts == SplitN3(title) IN
        IF /\ Len(parts) = 3
           /\ parts[1] \in {S["Wp"], S["wp"]}
           /\ Len(parts[2]) < 20
        THEN [keep EXCEPT !.lang = parts[2], !.title = parts[3]]
        ELSE keep
    ELSE IF lang \in {S["map_bms"], S["map-bms"]} THEN to("jv-x-bms")
    ELSE IF lang = S["media"] THEN und("mediawiki")
    ELSE IF lang = S["meta"] THEN und("metawiki")
    ELSE IF lang \in {S["roa_rup"], S["roa-rup"]} THEN to("rup")
    ELSE IF lang \in {S["roa_tara"], S["roa-tara"]} THEN to("nap-x-tara")
    ELSE IF lang = S["simple"] THEN to("en-x-simple")
    ELSE IF lang = S["sources"] THEN und("wikisource")
    ELSE IF lang = S["species"] THEN und("wikispecies")
    ELSE IF lang \in {S["nds_nl"], S["nds-nl"]} THEN to("nds-NL")
    ELSE IF lang = S["tr"] THEN [keep EXCEPT !.title = ToLowerSpecial(title)]
    ELSE IF lang \in {S["zh_classical"], S["zh-classical"]} THEN to("lzh")
    ELSE IF lang \in {S["zh_min_nan"], S["zh-min-nan"]} THEN to("nan")
    ELSE IF lang \in {S["zh_yue"], S["zh-yue"]} THEN to("yue")
    ELSE keep

\* The switch on lang without `case "wikimaniawiki"` under the empty lang.
langSwitchNoWikimania(lang, site, title) ==
    LET keep == [lang |-> lang, site |-> site, title |-> title]
        to(l) == [keep EXCEPT !.lang = S[l]]
        und(st) == [keep EXCEPT !.lang = S["und"], !.site = S[st]]
    IN
    IF lang = S[""] THEN
        [keep EXCEPT !.lang = S["und"],
                     !.site = IF site = S["wikidatawiki"] THEN S["wikidata"]
                              ELSE site]
    ELSE IF lang = S["az"] THEN [keep EXCEPT !.title = ToLowerSpecial(title)]
    ELSE IF lang = S["als"] THEN to("gsw")
    ELSE IF lang \in {S["bat_smg"], S["bat-smg"]} THEN to("sgs")
    ELSE IF lang = S["be_x_old"] THEN to("be-tarask")
    ELSE IF lang \in {S["cbk_zam"], S["cbk-zam"]} THEN to("cbk-x-zam")
    ELSE IF lang = S["commons"] THEN und("commons")
    ELSE IF lang \in {S["fiu_vro"], S["fiu-vro"]} THEN to("vro")
    ELSE IF lang = S["incubator"] THEN
        LET parts == SplitN3(title) IN
        IF /\ Len(parts) = 3
           /\ parts[1] \in {S["Wp"], S["wp"]}
           /\ Len(parts[2]) < 20
        THEN [keep EXCEPT !.lang = ToLower(parts[2]), !.title = parts[3]]
        ELSE keep
    ELSE IF lang \in {S["map_bms"], S["map-bms"]} THEN to("jv-x-bms")
    ELSE IF lang = S["media"] THEN und("mediawiki")
    ELSE IF lang = S["meta"] THEN und("metawiki")
    ELSE IF lang \in {S["roa_rup"], S["roa-rup"]} THEN to("rup")
    ELSE IF lang \in {S["roa_tara"], S["roa-tara"]} THEN to("nap-x-tara")
    ELSE IF lang = S["simple"] THEN to("en-x-simple")
    ELSE IF lang = S["sources"] THEN und("wikisource")
    ELSE IF lang = S["species"] THEN und("wikispecies")
    ELSE IF lang \in {S["nds_nl"], S["nds-nl"]} THEN to("nds-NL")
    ELSE IF lang = S["tr"] THEN [keep EXCEPT !.title = ToLowerSpecial(title)]
    ELSE IF lang \in {S["zh_classical"], S["zh-classical"]} THEN to("lzh")
    ELSE IF lang \in {S["zh_min_nan"], S["zh-min-nan"]} THEN to("nan")
    ELSE IF lang \in {S["zh_yue"], S["zh-yue"]} THEN to("yue")
    ELSE keep

\* The switch on lang with `case "species": lang = "und"` and no
\* assignment to site.
langSwitchSpeciesKeepsSite(lang, site, title) ==
    LET keep == [lang |-> lang, site |-> site, title |-> title]
        to(l) == [keep EXCEPT !.lang = S[l]]
        und(st) == [keep EXCEPT !.lang = S["und"], !.site = S[st]]
    IN
    IF lang = S[""] THEN
        [keep EXCEPT !.lang = S["und"],
                     !.site = IF site = S["wikidatawiki"] THEN S["wikidata"]
                              ELSE IF site = S["wikimaniawiki"] THEN S["wikimania"]
                              ELSE site]
    ELSE IF lang = S["az"] THEN [keep EXCEPT !.title = ToLowerSpecial(title)]
    ELSE IF lang = S["als"] THEN to("gsw")
    ELSE IF lang \in {S["bat_smg"], S["bat-smg"]} THEN to("sgs")
    ELSE IF lang = S["be_x_old"] THEN to("be-tarask")
    ELSE IF lang \in {S["cbk_zam"], S["cbk-zam"]} THEN to("cbk-x-zam")
    ELSE IF lang = S["commons"] THEN und("commons")
    ELSE IF lang \in {S["fiu_vro"], S["fiu-vro"]} THEN to("vro")
    ELSE IF lang = S["incubator"] THEN
        LET parts == SplitN3(title) IN
        IF /\ Len(parts) = 3
           /\ parts[1] \in {S["Wp"], S["wp"]}
           /\ Len(parts[2]) < 20
        THEN [keep EXCEPT !.lang = ToLower(parts[2]), !.title = parts[3]]
        ELSE keep
    ELSE IF lang \in {S["map_bms"], S["map-bms"]} THEN to("jv-x-bms")
    ELSE IF lang = S["media"] THEN und("mediawiki")
    ELSE IF lang = S["meta"] THEN und("metawiki")
    ELSE IF lang \in {S["roa_rup"], S["roa-rup"]} THEN to("rup")
    ELSE IF lang \in {S["roa_tara"], S["roa-tara"]} THEN to("nap-x-tara")
    ELSE IF lang = S["simple"] THEN to("en-x-simple")
    ELSE IF lang = S["sources"] THEN und("wikisource")
    ELSE IF lang = S["species"] THEN to("und")
    ELSE IF lang \in {S["nds_nl"], S["nds-nl"]} THEN to("nds-NL")
    ELSE IF lang = S["tr"] THEN [keep EXCEPT !.title = ToLowerSpecial(title)]
    ELSE IF lang \in {S["zh_classical"], S["zh-classical"]} THEN to("lzh")
    ELSE IF lang \in {S["zh_min_nan"], S["zh-min-nan"]} THEN to("nan")
    ELSE IF lang \in {S["zh_yue"], S["zh-yue"]} THEN to("yue")
    ELSE keep

\* The switch on lang (util.go:83-192): the rewritten (lang, site, title).
langSwitch(lang, site, title) ==
    LET keep == [lang |-> lang, site |-> site, title |-> title]
        to(l) == [keep EXCEPT !.lang = S[l]]
        und(st) == [keep EXCEPT !.lang = S["und"], !.site = S[st]]
    IN
    IF lang = S[""] THEN
        [keep EXCEPT !.lang = S["und"],
                     !.site = IF site = S["wikidatawiki"] THEN S["wikidata"]
                              ELSE IF site = S["wikimaniawiki"] THEN S["wikimania"]
                              ELSE site]
    ELSE IF lang = S["az"] THEN [keep EXCEPT !.title = ToLowerSpecial(title)]
    ELSE IF lang = S["als"] THEN to("gsw")
    ELSE IF lang \in {S["bat_smg"], S["bat-smg"]} THEN to("sgs")
    ELSE IF lang = S["be_x_old"] THEN to("be-tarask")
    ELSE IF lang \in {S["cbk_zam"], S["cbk-zam"]} THEN to("cbk-x-zam")
    ELSE IF lang = S["commons"] THEN und("commons")
    ELSE IF lang \in {S["fiu_vro"], S["fiu-vro"]} THEN to("vro")
    ELSE IF lang = S["incubator"] THEN
        LET parts == SplitN3(title) IN
        IF /\ Len(parts) = 3
           /\ parts[1] \in {S["Wp"], S["wp"]}
           /\ Len(parts[2]) < 20
        THEN [keep EXCEPT !.lang = ToLower(parts[2]), !.title = parts[3]]
        ELSE keep
    ELSE IF lang \in {S["map_bms"], S["map-bms"]} THEN to("jv-x-bms")
    ELSE IF lang = S["media"] THEN und("mediawiki")
    ELSE IF lang = S["meta"] THEN und("metawiki")
    ELSE IF lang \in {S["roa_rup"], S["roa-rup"]} THEN to("rup")
    ELSE IF lang \in {S["roa_tara"], S["roa-tara"]} THEN to("nap-x-tara")
    ELSE IF lang = S["simple"] THEN to("en-x-simple")
    ELSE IF lang = S["sources"] THEN und("wikisource")
    ELSE IF lang = S["species"] THEN und("wikispecies")
    ELSE IF lang \in {S["nds_nl"], S["nds-nl"]} THEN to("nds-NL")
    ELSE IF lang = S["tr"] THEN [keep EXCEPT !.title = ToLowerSpecial(title)]
    ELSE IF lang \in {S["zh_classical"], S["zh-classical"]} THEN to("lzh")
    ELSE IF lang \in {S["zh_min_nan"], S["zh-min-nan"]} THEN to("nan")
    ELSE IF lang \in {S["zh_yue"], S["zh-yue"]} THEN to("yue")
    ELSE keep

\* formatLine with the lang lower-cased before it is written.
formatLineLower(lang, site, title, value) ==
    LET r == langSwitch(lang, site, title)
    IN  ToLower(r.lang) \o <<46>> \o r.site \o <<47>> \o normTitle(r.title)
            \o <<32>> \o value

\* formatLine: "<lang>.<site>/<title> <value>".
formatLine(lang, site, title, value) ==
    LET r == langSwitch(lang, site, title)
    IN  r.lang \o <<46>> \o r.site \o <<47>> \o normTitle(r.title) \o <<32>> \o value

-----------------------------------------------------------------------------
(* readPageviews, emitPageviews (main.go)                                  *)

\* Model bounds.
NumDays == 2
ChanCap == 1
MaxLines == 3

\* if testRun && n >= 500 { break }
TestRunLimit == 500

Days == 1..NumDays

NoErr == "nil"
Canceled == "context canceled"

\* parseRow with the error of strconv.ParseInt ignored (the count is then 0).
parseRowKeepBadInt(line) ==
    LET cols == Fields(line)
        bad == [ok |-> FALSE, site |-> <<>>, title |-> <<>>, c |-> 0]
    IN  IF Len(cols) # 6 THEN bad
        ELSE LET site == cols[1]
                 title == IF QueryUnescapeOk(cols[2]) THEN QueryUnescape(cols[2])
                          ELSE cols[2]
             IN  IF site = S["en-wg.wikipedia"] THEN bad
                 ELSE IF ~ValidString(title) THEN bad
                 ELSE [ok |-> TRUE, site |-> site, title |-> title,
                       c |-> IF ParseIntOk(cols[5]) THEN ParseIntVal(cols[5])
                             ELSE 0]

\* One scanned line: the columns readPageviews uses, or ok = FALSE when the
\* loop body ends in one of its `continue`s.
parseRow(line) ==
    LET cols == Fields(line)
        bad == [ok |-> FALSE, site |-> <<>>, title |-> <<>>, c |-> 0]
    IN  IF Len(cols) # 6 THEN bad
        ELSE LET site == cols[1]
                 title == IF QueryUnescapeOk(cols[2]) THEN QueryUnescape(cols[2])
                          ELSE cols[2]
             IN  IF site = S["en-wg.wikipedia"] THEN bad
                 ELSE IF ~ValidString(title) THEN bad
                 ELSE IF ~ParseIntOk(cols[5]) THEN bad
                 ELSE [ok |-> TRUE, site |-> site, title |-> title,
                       c |-> ParseIntVal(cols[5])]

\* emitPageviews without the `dot < 0` return.
emitSelectsAnySite(site, count) == count > 0

\* emitPageviews with `count >= 0` in place of `count > 0`.
emitSelectsZero(site, count) == count >= 0 /\ IndexByte(site, 46) >= 0

\* emitPageviews reaches its select: count > 0 and the site has a '.'.
emitSelects(site, count) == count > 0 /\ IndexByte(site, 46) >= 0

\* emitPageviews: the line it offers to the channel.
emitLine(site, title, count) ==
    LET dot == IndexByte(site, 46)
    IN  formatLine(Slice(site, 0, dot), Slice(site, dot + 1, Len(site)),
                   title, FormatInt(count))

\* readPageviews with `lastCount = c` in place of `lastCount += c`.
readPageviewsOverwrite(r, lines, tr) ==
    IF r.pc = "last"
    THEN [emit |-> emitSelects(r.lastSite, r.lastCount),
          line |-> emitLine(r.lastSite, r.lastTitle, r.lastCount),
          next |-> [r EXCEPT !.pc = "done", !.err = NoErr]]
    ELSE IF r.pos < Len(lines) /\ ~(tr /\ r.n + 1 >= TestRunLimit) THEN
        LET row == parseRow(lines[r.pos + 1])
            adv == [r EXCEPT !.pos = @ + 1, !.n = @ + 1]
        IN  IF ~row.ok THEN [emit |-> FALSE, line |-> <<>>, next |-> adv]
            ELSE IF row.site = r.lastSite /\ row.title = r.lastTitle
            THEN [emit |-> FALSE, line |-> <<>>,
                  next |-> [adv EXCEPT !.lastCount = row.c]]
            ELSE [emit |-> emitSelects(r.lastSite, r.lastCount),
                  line |-> emitLine(r.lastSite, r.lastTitle, r.lastCount),
                  next |-> [adv EXCEPT !.lastSite = row.site,
                                       !.lastTitle = row.title,
                                       !.lastCount = row.c]]
    ELSE [emit |-> FALSE, line |-> <<>>, next |-> [r EXCEPT !.pc = "last"]]

\* readPageviews from worker state r: one pass of the scan loop (pc "scan"),
\* leaving the loop at the end of the input or at the testRun break, or the
\* code after the loop (pc "last").  emit says whether emitPageviews reaches
\* its select with `line`; next is the worker's state when that call returns
\* nil.
readPageviews(r, lines, tr) ==
    IF r.pc = "last"
    THEN [emit |-> emitSelects(r.lastSite, r.lastCount),
          line |-> emitLine(r.lastSite, r.lastTitle, r.lastCount),
          next |-> [r EXCEPT !.pc = "done", !.err = NoErr]]
    ELSE IF r.pos < Len(lines) /\ ~(tr /\ r.n + 1 >= TestRunLimit) THEN
        LET row == parseRow(lines[r.pos + 1])
            adv == [r EXCEPT !.pos = @ + 1, !.n = @ + 1]
        IN  IF ~row.ok THEN [emit |-> FALSE, line |-> <<>>, next |-> adv]
            ELSE IF row.site = r.lastSite /\ row.title = r.lastTitle
            THEN [emit |-> FALSE, line |-> <<>>,
                  next |-> [adv EXCEPT !.lastCount = @ + row.c]]
            ELSE [emit |-> emitSelects(r.lastSite, r.lastCount),
                  line |-> emitLine(r.lastSite, r.lastTitle, r.lastCount),
                  next |-> [adv EXCEPT !.lastSite = row.site,
                                       !.lastTitle = row.title,
                                       !.lastCount = row.c]]
    ELSE [emit |-> FALSE, line |-> <<>>, next |-> [r EXCEPT !.pc = "last"]]

\* The context of the day workers: the errgroup context of
\* readMonthlyPageviews, a child of the one of buildMonthlyPageviews.
readCtxDone == rg.cancelled \/ bg.cancelled \/ ctx

\* An errgroup that keeps the last error instead of the first.
rgReturnLast(err) ==
    IF err # NoErr THEN [rg EXCEPT !.err = err, !.cancelled = TRUE] ELSE rg

\* A day worker returns err to the errgroup of readMonthlyPageviews: the
\* first error is kept and cancels the group's context.
rgReturn(err) ==
    IF err # NoErr /\ rg.err = NoErr
    THEN [rg EXCEPT !.err = err, !.cancelled = TRUE]
    ELSE rg

rdKeep == UNCHANGED <<testRun, cq, fl, util, up, pt, input, sorter, outChan, errChan, comb, w, bg,
                      ctx, build, fs, proc>>

\* readPageviewsFile: os.Open and bzip2.NewReader succeed.
OpenFile(d) ==
    /\ rd[d].pc = "open"
    /\ rd' = [rd EXCEPT ![d].pc = "scan"]
    /\ UNCHANGED <<ch, rg, faults, log>>
    /\ rdKeep

\* readPageviewsFile: os.Open fails (the daily log is missing).
OpenFails(d) ==
    /\ rd[d].pc = "open"
    /\ rd' = [rd EXCEPT ![d].pc = "done", ![d].err = "open"]
    /\ rg' = rgReturn("open")
    /\ faults' = faults \cup {"open"}
    /\ log' = [log EXCEPT !.first = IF @ = NoErr THEN "open" ELSE @]
    /\ UNCHANGED ch
    /\ rdKeep

\* readPageviews runs up to the next select of emitPageviews (pc "emit",
\* with the line it offers and where it goes on when the call returns nil),
\* or to its return when there is none.
ReadStep(d) ==
    LET st == readPageviews(rd[d], input[d], testRun) IN
    /\ rd[d].pc \in {"scan", "last"}
    /\ rd' = [rd EXCEPT ![d] = IF st.emit
                               THEN [st.next EXCEPT !.pc = "emit",
                                                    !.line = st.line,
                                                    !.ret = st.next.pc]
                               ELSE st.next]
    /\ UNCHANGED <<ch, rg, faults, log>>
    /\ rdKeep

\* The select of emitPageviews sends the line on ch.
ReadSend(d) ==
    /\ rd[d].pc = "emit"
    /\ Len(ch.buf) < ChanCap
    /\ ch' = [ch EXCEPT !.buf = Append(@, rd[d].line)]
    /\ rd' = [rd EXCEPT ![d].pc = rd[d].ret, ![d].line = <<>>]
    /\ log' = [log EXCEPT !.sent[d] = Append(@, rd[d].line),
                          !.late = @ \/ ch.closed,
                          !.after = @ \/ rg.err # NoErr]
    /\ UNCHANGED <<rg, faults>>
    /\ rdKeep

\* emitPageviews with `return nil` in place of `return ctx.Err()`.
ReadCancelledNil(d) ==
    /\ rd[d].pc = "emit"
    /\ readCtxDone
    /\ rd' = [rd EXCEPT ![d].pc = "done", ![d].line = <<>>]
    /\ UNCHANGED <<ch, rg, faults, log>>
    /\ rdKeep

\* emitPageviews with a plain `ch <- line` in place of the select: the
\* worker never takes <-ctx.Done().
ReadCancelledNever(d) ==
    /\ rd[d].pc = "emit"
    /\ FALSE
    /\ UNCHANGED vars

\* The select of emitPageviews takes <-ctx.Done(): ctx.Err() is returned
\* through readPageviewsFile to the errgroup.
ReadCancelled(d) ==
    /\ rd[d].pc = "emit"
    /\ readCtxDone
    /\ rd' = [rd EXCEPT ![d].pc = "done", ![d].err = Canceled]
    /\ rg' = rgReturn(Canceled)
    /\ log' = [log EXCEPT !.first = IF @ = NoErr THEN Canceled ELSE @]
    /\ UNCHANGED <<ch, faults>>
    /\ rdKeep

\* scanner.Scan() returns false on a read error: scanner.Err() is returned.
ReadFails(d) ==
    /\ rd[d].pc = "scan"
    /\ rd' = [rd EXCEPT ![d].pc = "done", ![d].err = "read"]
    /\ rg' = rgReturn("read")
    /\ faults' = faults \cup {"read"}
    /\ log' = [log EXCEPT !.first = IF @ = NoErr THEN "read" ELSE @]
    /\ UNCHANGED ch
    /\ rdKeep

-----------------------------------------------------------------------------
(* readMonthlyPageviews (main.go)                                          *)

rmKeep == UNCHANGED <<testRun, cq, fl, util, up, pt, input, rd, sorter, outChan, errChan, comb, w,
                      ctx, build, fs, faults, proc>>

\* A task of the errgroup of buildMonthlyPageviews returns err: the first
\* error is kept and cancels the group's context.
bgReturn(err) ==
    IF err # NoErr /\ bg.err = NoErr
    THEN [bg EXCEPT !.err = err, !.cancelled = TRUE]
    ELSE bg

\* readMonthlyPageviews closing the channel without waiting for the day
\* workers.
ReadMonthlyWaitEarly ==
    /\ rg.pc = "wait"
    /\ rg' = [rg EXCEPT !.pc = "closed", !.cancelled = TRUE]
    /\ ch' = [ch EXCEPT !.closed = TRUE]
    /\ log' = [log EXCEPT !.closes = @ + 1]
    /\ UNCHANGED bg
    /\ rmKeep

\* g.Wait() returns once every day worker has returned; the deferred
\* close(ch) runs.
ReadMonthlyWait ==
    /\ rg.pc = "wait"
    /\ \A d \in Days : rd[d].pc = "done"
    /\ rg' = [rg EXCEPT !.pc = "closed", !.cancelled = TRUE]
    /\ ch' = [ch EXCEPT !.closed = TRUE]
    /\ log' = [log EXCEPT !.closes = @ + 1]
    /\ UNCHANGED bg
    /\ rmKeep

\* readMonthlyPageviews has returned g.Wait()'s error to the errgroup of
\* buildMonthlyPageviews.
ReadMonthlyReturn ==
    /\ rg.pc = "closed"
    /\ rg' = [rg EXCEPT !.pc = "done"]
    /\ bg' = bgReturn(rg.err)
    /\ UNCHANGED <<ch, log>>
    /\ rmKeep

-----------------------------------------------------------------------------
(* The external sorter (extsort.Strings, sorter.Sort) as main.go uses it   *)

\* The buffer of the sorter's output channel.
OutCap == 1

\* Go's order on strings: bytewise lexicographic.
RECURSIVE Less(_, _)
Less(a, b) ==
    IF b = <<>> THEN FALSE
    ELSE IF a = <<>> THEN TRUE
    ELSE IF a[1] # b[1] THEN a[1] < b[1]
    ELSE Less(Tail(a), Tail(b))

\* A merge that hands the lines on in the order of their arrival.
FirstIndex(data) == 1

\* The index of a least string of a non-empty sequence.
MinIndex(data) ==
    CHOOSE i \in 1..Len(data) : \A j \in 1..Len(data) : ~Less(data[j], data[i])

RemoveAt(data, i) == SubSeq(data, 1, i - 1) \o SubSeq(data, i + 1, Len(data))

\* The context of the two tasks of buildMonthlyPageviews.
buildCtxDone == bg.cancelled \/ ctx

soKeep == UNCHANGED <<testRun, cq, fl, util, up, pt, input, rd, rg, w, bg, ctx, build, fs, proc>>

\* The sorter reports err: it goes to the error channel, both channels are closed.
sorterStop(err) ==
    /\ errChan' = [buf |-> IF err = NoErr THEN <<>> ELSE <<err>>, closed |-> TRUE]
    /\ outChan' = [outChan EXCEPT !.closed = TRUE]

\* sorter.Sort: a line is received from ch into the current chunk.
SortRecv ==
    /\ sorter.pc = "chunk"
    /\ ch.buf # <<>>
    /\ sorter' = [sorter EXCEPT !.data = Append(@, Head(ch.buf))]
    /\ ch' = [ch EXCEPT !.buf = Tail(@)]
    /\ UNCHANGED <<outChan, errChan, comb, faults, log>>
    /\ soKeep

\* sorter.Sort: ch is closed and drained; the chunks are sorted and saved,
\* the merge starts in its own task and Sort returns.
SortInputClosed ==
    /\ sorter.pc = "chunk"
    /\ ch.buf = <<>> /\ ch.closed
    /\ sorter' = [sorter EXCEPT !.pc = "merge"]
    /\ comb' = [comb EXCEPT !.pc = "run"]
    /\ UNCHANGED <<ch, outChan, errChan, faults, log>>
    /\ soKeep

\* sorter.Sort: the context is done while chunks are built; Sort returns.
SortCancelled ==
    /\ sorter.pc = "chunk"
    /\ buildCtxDone
    /\ sorter' = [sorter EXCEPT !.pc = "done"]
    /\ sorterStop(Canceled)
    /\ comb' = [comb EXCEPT !.pc = "run"]
    /\ UNCHANGED <<ch, faults, log>>
    /\ soKeep

\* sorter.Sort: saving the sorted chunks fails once the input is consumed.
SortFails ==
    /\ sorter.pc = "chunk"
    /\ ch.buf = <<>> /\ ch.closed
    /\ sorter' = [sorter EXCEPT !.pc = "done"]
    /\ sorterStop("sort")
    /\ comb' = [comb EXCEPT !.pc = "run"]
    /\ faults' = faults \cup {"sort"}
    /\ UNCHANGED <<ch, log>>
    /\ soKeep

\* The merge sends the least remaining line on the output channel.
MergeSend ==
    /\ sorter.pc = "merge"
    /\ sorter.data # <<>>
    /\ Len(outChan.buf) < OutCap
    /\ LET i == MinIndex(sorter.data) IN
        /\ outChan' = [outChan EXCEPT !.buf = Append(@, sorter.data[i])]
        /\ sorter' = [sorter EXCEPT !.data = RemoveAt(@, i)]
    /\ UNCHANGED <<ch, errChan, comb, faults, log>>
    /\ soKeep

\* The merge has sent everything: both channels are closed, no error.
MergeDone ==
    /\ sorter.pc = "merge"
    /\ sorter.data = <<>>
    /\ sorter' = [sorter EXCEPT !.pc = "done"]
    /\ sorterStop(NoErr)
    /\ UNCHANGED <<ch, comb, faults, log>>
    /\ soKeep

\* The merge's select takes <-ctx.Done() instead of sending.
MergeCancelled ==
    /\ sorter.pc = "merge"
    /\ sorter.data # <<>>
    /\ buildCtxDone
    /\ sorter' = [sorter EXCEPT !.pc = "done"]
    /\ sorterStop(Canceled)
    /\ UNCHANGED <<ch, comb, faults, log>>
    /\ soKeep

\* The merge fails to read a saved chunk back.
MergeFails ==
    /\ sorter.pc = "merge"
    /\ sorter.data # <<>>
    /\ sorter' = [sorter EXCEPT !.pc = "done"]
    /\ sorterStop("sort")
    /\ faults' = faults \cup {"sort"}
    /\ UNCHANGED <<ch, comb, log>>
    /\ soKeep

-----------------------------------------------------------------------------
(* combineCounts, writeCount (main.go)                                     *)

\* writeCount with `count < 0` in place of `count <= 0`.
writeCountZero(key, count) ==
    IF count < 0 THEN <<>>
    ELSE <<key \o <<32>> \o FormatInt(count) \o <<10>>>>

\* combineCounts with `lastCount = count` in place of `lastCount += count`.
combineCountsOverwrite(c, line) ==
    LET cols == Split(line, 32) IN
    IF Len(cols) # 2 THEN [out |-> <<>>, next |-> c]
    ELSE IF ~ParseIntOk(cols[2])
    THEN [out |-> <<>>, next |-> [c EXCEPT !.pc = "done", !.err = "parse"]]
    ELSE [out |-> IF cols[1] = c.lastKey THEN <<>>
                  ELSE IF c.lastCount <= 0 THEN <<>>
                  ELSE <<c.lastKey \o <<32>> \o FormatInt(c.lastCount) \o <<10>>>>,
          next |-> [c EXCEPT !.lastKey = cols[1],
                             !.lastCount = ParseIntVal(cols[2])]]

\* writeCount: what it writes to w (nothing when count <= 0).
writeCount(key, count) ==
    IF count <= 0 THEN <<>>
    ELSE <<key \o <<32>> \o FormatInt(count) \o <<10>>>>

\* combineCounts with `continue` in place of `return err` after ParseInt.
combineCountsSkipBadInt(c, line) ==
    LET cols == Split(line, 32) IN
    IF Len(cols) # 2 THEN [out |-> <<>>, next |-> c]
    ELSE IF ~ParseIntOk(cols[2]) THEN [out |-> <<>>, next |-> c]
    ELSE IF cols[1] = c.lastKey
    THEN [out |-> <<>>,
          next |-> [c EXCEPT !.lastCount = @ + ParseIntVal(cols[2])]]
    ELSE [out |-> writeCount(c.lastKey, c.lastCount),
          next |-> [c EXCEPT !.lastKey = cols[1],
                             !.lastCount = ParseIntVal(cols[2])]]

\* combineCounts with the pending key written out and forgotten, in place of
\* `continue`, on a line that does not split into two fields.
combineCountsFlushOnSkip(c, line) ==
    LET cols == Split(line, 32) IN
    IF Len(cols) # 2
    THEN [out |-> writeCount(c.lastKey, c.lastCount),
          next |-> [c EXCEPT !.lastKey = <<>>, !.lastCount = 0]]
    ELSE IF ~ParseIntOk(cols[2])
    THEN [out |-> <<>>, next |-> [c EXCEPT !.pc = "done", !.err = "parse"]]
    ELSE IF cols[1] = c.lastKey
    THEN [out |-> <<>>,
          next |-> [c EXCEPT !.lastCount = @ + ParseIntVal(cols[2])]]
    ELSE [out |-> writeCount(c.lastKey, c.lastCount),
          next |-> [c EXCEPT !.lastKey = cols[1],
                             !.lastCount = ParseIntVal(cols[2])]]

\* combineCounts: the loop body for a received line, from state c.
\* out is what writeCount is asked to write; next the state when it succeeds.
combineCounts(c, line) ==
    LET cols == Split(line, 32) IN
    IF Len(cols) # 2 THEN [out |-> <<>>, next |-> c]
    ELSE IF ~ParseIntOk(cols[2])
    THEN [out |-> <<>>, next |-> [c EXCEPT !.pc = "done", !.err = "parse"]]
    ELSE IF cols[1] = c.lastKey
    THEN [out |-> <<>>,
          next |-> [c EXCEPT !.lastCount = @ + ParseIntVal(cols[2])]]
    ELSE [out |-> writeCount(c.lastKey, c.lastCount),
          next |-> [c EXCEPT !.lastKey = cols[1],
                             !.lastCount = ParseIntVal(cols[2])]]

coKeep == UNCHANGED <<testRun, cq, fl, util, up, pt, input, rd, ch, rg, sorter, errChan, ctx, build,
                      fs, proc>>

\* combineCounts receives a line from the sorter.
CombineRecv ==
    LET st == combineCounts(comb, Head(outChan.buf)) IN
    /\ comb.pc = "run"
    /\ outChan.buf # <<>>
    /\ outChan' = [outChan EXCEPT !.buf = Tail(@)]
    /\ comb' = st.next
    /\ w' = w \o st.out
    /\ bg' = IF st.next.pc = "done" THEN bgReturn(st.next.err) ELSE bg
    /\ log' = [log EXCEPT !.recv = Append(@, Head(outChan.buf))]
    /\ UNCHANGED faults
    /\ coKeep

\* combineCounts receives a line and the write of the finished key fails.
CombineWriteFails ==
    LET st == combineCounts(comb, Head(outChan.buf)) IN
    /\ comb.pc = "run"
    /\ outChan.buf # <<>>
    /\ st.out # <<>>
    /\ outChan' = [outChan EXCEPT !.buf = Tail(@)]
    /\ comb' = [comb EXCEPT !.pc = "done", !.err = "write"]
    /\ bg' = bgReturn("write")
    /\ faults' = faults \cup {"write"}
    /\ log' = [log EXCEPT !.recv = Append(@, Head(outChan.buf))]
    /\ UNCHANGED w
    /\ coKeep

\* The channel is closed and drained: the last key is written, nil returned.
CombineEOF ==
    /\ comb.pc = "run"
    /\ outChan.buf = <<>> /\ outChan.closed
    /\ comb' = [comb EXCEPT !.pc = "done", !.err = NoErr]
    /\ w' = w \o writeCount(comb.lastKey, comb.lastCount)
    /\ UNCHANGED <<outChan, bg, faults, log>>
    /\ coKeep

\* As CombineEOF, but the write of the last key fails.
CombineEOFWriteFails ==
    /\ comb.pc = "run"
    /\ outChan.buf = <<>> /\ outChan.closed
    /\ writeCount(comb.lastKey, comb.lastCount) # <<>>
    /\ comb' = [comb EXCEPT !.pc = "done", !.err = "write"]
    /\ bg' = bgReturn("write")
    /\ faults' = faults \cup {"write"}
    /\ UNCHANGED <<outChan, w, log>>
    /\ coKeep

\* The select takes <-ctx.Done(): ctx.Err() is returned.
CombineCancelled ==
    /\ comb.pc = "run"
    /\ buildCtxDone
    /\ comb' = [comb EXCEPT !.pc = "done", !.err = Canceled]
    /\ bg' = bgReturn(Canceled)
    /\ UNCHANGED <<outChan, w, faults, log>>
    /\ coKeep

\* The context handed to buildMonthlyPageviews is cancelled by its owner.
Cancel ==
    /\ ~ctx
    /\ ctx' = TRUE
    /\ UNCHANGED <<testRun, cq, fl, util, up, pt, input, rd, ch, rg, sorter, outChan, errChan, comb,
                   w, bg, build, fs, faults, proc, log>>

\* The caller of combineCounts sends the next line of its input on the channel.
FeedSend ==
    /\ sorter.pc = "feed"
    /\ sorter.data # <<>>
    /\ Len(outChan.buf) < OutCap
    /\ outChan' = [outChan EXCEPT !.buf = Append(@, Head(sorter.data))]
    /\ sorter' = [sorter EXCEPT !.data = Tail(@)]
    /\ UNCHANGED <<ch, errChan, comb, faults, log>>
    /\ soKeep

\* The caller of combineCounts closes the channel after the last line.
FeedClose ==
    /\ sorter.pc = "feed"
    /\ sorter.data = <<>>
    /\ outChan' = [outChan EXCEPT !.closed = TRUE]
    /\ sorter' = [sorter EXCEPT !.pc = "done"]
    /\ UNCHANGED <<ch, errChan, comb, faults, log>>
    /\ soKeep

-----------------------------------------------------------------------------
(* buildMonthlyPageviews (main.go)                                         *)

\* fmt.Sprintf("%0<width>d", n) for n >= 0.
RECURSIVE Pad(_, _)
Pad(n, width) ==
    IF Len(FormatInt(n)) >= width THEN FormatInt(n)
    ELSE <<48>> \o Pad(n, width - 1)

\* outPath: "pageviews-%04d%02d.br" inside outDir.
outPath(year, month) ==
    S["pageviews-"] \o Pad(year, 4) \o Pad(month, 2) \o S[".br"]

\* The output written in place: tmpPath := outPath.
tmpPathInPlace(year, month) == outPath(year, month)

\* tmpPath := outPath + ".tmp"
tmpPath(year, month) == outPath(year, month) \o S[".tmp"]

Exists(path) == path \in DOMAIN fs

\* The directory with `path` holding `file`.
WithFile(dir, path, file) ==
    [p \in DOMAIN dir \cup {path} |-> IF p = path THEN file ELSE dir[p]]

\* The directory without `path`.
Without(dir, path) == [p \in DOMAIN dir \ {path} |-> dir[p]]

\* os.Rename(from, to).
Rename(dir, from, to) == WithFile(Without(dir, from), to, dir[from])

NoPath == <<>>

IdleRd == [pc |-> "done", pos |-> 0, n |-> 0, lastSite |-> <<>>,
           lastTitle |-> <<>>, lastCount |-> 0, line |-> <<>>, ret |-> "done",
           err |-> NoErr]
NewChan == [buf |-> <<>>, closed |-> FALSE]
NewComb == [pc |-> "idle", lastKey |-> <<>>, lastCount |-> 0, err |-> NoErr]

buKeep == UNCHANGED <<testRun, cq, fl, util, up, pt, input, ctx, proc>>
buIdle == UNCHANGED <<rd, ch, rg, sorter, outChan, errChan, comb, w, bg>>

\* The function returns (path, err); nothing else is left to do.
buildReturn(path, err) ==
    build' = [build EXCEPT !.pc = "done", !.ret = path, !.err = err]

\* buildMonthlyPageviews without the os.Stat shortcut: the month is rebuilt.
BuildExistsRebuild ==
    /\ build.pc = "stat"
    /\ Exists(outPath(build.year, build.month))
    /\ fs' = WithFile(fs, tmpPath(build.year, build.month), [data |-> <<>>])
    /\ build' = [build EXCEPT !.pc = "wait"]
    /\ ch' = NewChan
    /\ outChan' = NewChan
    /\ errChan' = NewChan
    /\ sorter' = [pc |-> "chunk", data |-> <<>>]
    /\ rd' = [d \in Days |-> [IdleRd EXCEPT !.pc = "open"]]
    /\ rg' = [pc |-> "wait", err |-> NoErr, cancelled |-> FALSE]
    /\ bg' = [err |-> NoErr, cancelled |-> FALSE]
    /\ comb' = NewComb
    /\ w' = <<>>
    /\ log' = [log EXCEPT !.started = @ + 1, !.closes = 0]
    /\ UNCHANGED faults
    /\ buKeep

\* os.Stat(outPath) succeeds: the pre-existing file is used.
BuildExists ==
    /\ build.pc = "stat"
    /\ Exists(outPath(build.year, build.month))
    /\ buildReturn(outPath(build.year, build.month), NoErr)
    /\ UNCHANGED <<fs, faults, log>>
    /\ buIdle /\ buKeep

\* os.Stat(outPath) fails with something else than "not exist".
BuildStatFails ==
    /\ build.pc = "stat"
    /\ buildReturn(NoPath, "stat")
    /\ faults' = faults \cup {"stat"}
    /\ UNCHANGED <<fs, log>>
    /\ buIdle /\ buKeep

\* os.Create(tmpPath) fails.
BuildCreateFails ==
    /\ build.pc = "stat"
    /\ ~Exists(outPath(build.year, build.month))
    /\ buildReturn(NoPath, "create")
    /\ faults' = faults \cup {"create"}
    /\ UNCHANGED <<fs, log>>
    /\ buIdle /\ buKeep

\* BuildStart with the temp file opened without truncation: a temp file
\* that is there keeps its content.
BuildStartKeepTmp ==
    /\ build.pc = "stat"
    /\ ~Exists(outPath(build.year, build.month))
    /\ fs' = IF Exists(tmpPath(build.year, build.month)) THEN fs
             ELSE WithFile(fs, tmpPath(build.year, build.month),
                           [data |-> <<>>])
    /\ build' = [build EXCEPT !.pc = "wait", !.syncOk = FALSE, !.closeOk = FALSE]
    /\ ch' = NewChan
    /\ outChan' = NewChan
    /\ errChan' = NewChan
    /\ sorter' = [pc |-> "chunk", data |-> <<>>]
    /\ rd' = [d \in Days |-> [IdleRd EXCEPT !.pc = "open"]]
    /\ rg' = [pc |-> "wait", err |-> NoErr, cancelled |-> FALSE]
    /\ bg' = [err |-> NoErr, cancelled |-> FALSE]
    /\ comb' = NewComb
    /\ w' = <<>>
    /\ log' = [log EXCEPT !.started = @ + 1, !.closes = 0]
    /\ UNCHANGED faults
    /\ buKeep

\* The file does not exist: the temp file is created (truncated), the
\* channel and the sorter are set up and the two tasks are started; the
\* first starts one worker per day.
BuildStart ==
    /\ build.pc = "stat"
    /\ ~Exists(outPath(build.year, build.month))
    /\ fs' = WithFile(fs, tmpPath(build.year, build.month),
                      [data |-> <<>>])
    /\ build' = [build EXCEPT !.pc = "wait", !.syncOk = FALSE, !.closeOk = FALSE]
    /\ ch' = NewChan
    /\ outChan' = NewChan
    /\ errChan' = NewChan
    /\ sorter' = [pc |-> "chunk", data |-> <<>>]
    /\ rd' = [d \in Days |-> [IdleRd EXCEPT !.pc = "open"]]
    /\ rg' = [pc |-> "wait", err |-> NoErr, cancelled |-> FALSE]
    /\ bg' = [err |-> NoErr, cancelled |-> FALSE]
    /\ comb' = NewComb
    /\ w' = <<>>
    /\ log' = [log EXCEPT !.started = @ + 1, !.closes = 0]
    /\ UNCHANGED faults
    /\ buKeep

\* The deferred writer.Close() of an early return: what the compressed
\* writer still holds goes to the temp file.
deferredClose(dir, year, month) ==
    [dir EXCEPT ![tmpPath(year, month)].data = w]

\* g.Wait() returns once both tasks have returned; it cancels the group's
\* context.  An error is returned at once.
BuildWait ==
    /\ build.pc = "wait"
    /\ rg.pc = "done" /\ comb.pc = "done"
    /\ bg' = [bg EXCEPT !.cancelled = TRUE]
    /\ IF bg.err # NoErr
       THEN /\ buildReturn(NoPath, bg.err)
            /\ fs' = deferredClose(fs, build.year, build.month)
       ELSE /\ build' = [build EXCEPT !.pc = "errchan"]
            /\ UNCHANGED fs
    /\ UNCHANGED <<rd, ch, rg, sorter, outChan, errChan, comb, w, faults, log>>
    /\ buKeep

\* err := <-errChan
BuildErrChan ==
    /\ build.pc = "errchan"
    /\ errChan.buf # <<>> \/ errChan.closed
    /\ IF errChan.buf # <<>>
       THEN /\ buildReturn(NoPath, Head(errChan.buf))
            /\ errChan' = [errChan EXCEPT !.buf = Tail(@)]
            /\ fs' = deferredClose(fs, build.year, build.month)
       ELSE /\ build' = [build EXCEPT !.pc = "wclose"]
            /\ UNCHANGED <<errChan, fs>>
    /\ UNCHANGED <<rd, ch, rg, sorter, outChan, comb, w, bg, faults, log>>
    /\ buKeep

\* writer.Close() succeeds: the whole compressed stream is in the temp file.
BuildWriterClose ==
    /\ build.pc = "wclose"
    /\ fs' = deferredClose(fs, build.year, build.month)
    /\ build' = [build EXCEPT !.pc = "sync"]
    /\ UNCHANGED <<faults, log>>
    /\ buIdle /\ buKeep

\* writer.Close() fails: some prefix of the output reached the temp file.
BuildWriterCloseFails ==
    /\ build.pc = "wclose"
    /\ \E k \in 0..Len(w) :
          fs' = [fs EXCEPT ![tmpPath(build.year, build.month)].data = SubSeq(w, 1, k)]
    /\ buildReturn(NoPath, "wclose")
    /\ faults' = faults \cup {"wclose"}
    /\ UNCHANGED log
    /\ buIdle /\ buKeep

\* tmpFile.Sync() succeeds.
BuildSync ==
    /\ build.pc = "sync"
    /\ build' = [build EXCEPT !.pc = "fclose", !.syncOk = TRUE]
    /\ UNCHANGED <<fs, faults, log>>
    /\ buIdle /\ buKeep

\* tmpFile.Sync() fails: `if err := tmpFile.Sync(); err != nil { }`.
BuildSyncFails ==
    /\ build.pc = "sync"
    /\ build' = [build EXCEPT !.pc = "fclose"]
    /\ faults' = faults \cup {"sync"}
    /\ UNCHANGED <<fs, log>>
    /\ buIdle /\ buKeep

\* tmpFile.Close() succeeds.
BuildFileClose ==
    /\ build.pc = "fclose"
    /\ build' = [build EXCEPT !.pc = "rename", !.closeOk = TRUE]
    /\ UNCHANGED <<fs, faults, log>>
    /\ buIdle /\ buKeep

\* tmpFile.Close() fails: `if err := tmpFile.Close(); err != nil { }`.
BuildFileCloseFails ==
    /\ build.pc = "fclose"
    /\ build' = [build EXCEPT !.pc = "rename"]
    /\ faults' = faults \cup {"fclose"}
    /\ UNCHANGED <<fs, log>>
    /\ buIdle /\ buKeep

\* os.Rename(tmpPath, outPath) succeeds; outPath is returned.
BuildRename ==
    /\ build.pc = "rename"
    /\ fs' = Rename(fs, tmpPath(build.year, build.month),
                    outPath(build.year, build.month))
    /\ buildReturn(outPath(build.year, build.month), NoErr)
    /\ log' = [log EXCEPT !.renames = @ + 1]
    /\ UNCHANGED faults
    /\ buIdle /\ buKeep

\* os.Rename fails.
BuildRenameFails ==
    /\ build.pc = "rename"
    /\ buildReturn(NoPath, "rename")
    /\ faults' = faults \cup {"rename"}
    /\ UNCHANGED <<fs, log>>
    /\ buIdle /\ buKeep

-----------------------------------------------------------------------------
(* Initial states                                                          *)

EmptyDir == [p \in {} |-> 0]

\* All sequences over `set` of length at most n.
RECURSIVE SeqsUpTo(_, _)
SeqsUpTo(set, n) ==
    IF n = 0 THEN {<<>>}
    ELSE LET shorter == SeqsUpTo(set, n - 1)
         IN  shorter \cup {Append(q, x) : q \in {r \in shorter : Len(r) = n - 1},
                                          x \in set}

NewLog ==
    [sent |-> [d \in Days |-> <<>>], recv |-> <<>>, first |-> NoErr,
     late |-> FALSE, after |-> FALSE, closes |-> 0, started |-> 0, renames |-> 0,
     pre |-> EmptyDir, calls |-> <<>>, runs |-> 1, prevPaths |-> <<>>,
     preStarted |-> 0, prevFs |-> EmptyDir, prevStarted |-> 0]

NewBuild(year, month) ==
    [pc |-> "stat", year |-> year, month |-> month, ret |-> NoPath,
     err |-> NoErr, syncOk |-> FALSE, closeOk |-> FALSE]

NewRg == [pc |-> "idle", err |-> NoErr, cancelled |-> FALSE]
NewBg == [err |-> NoErr, cancelled |-> FALSE]
IdleSorter == [pc |-> "idle", data |-> <<>>]
IdleBuild == [NewBuild(0, 0) EXCEPT !.pc = "idle"]
IdleProc == [pc |-> "idle", i |-> 1, paths |-> <<>>, err |-> NoErr,
             date |-> [y |-> 0, m |-> 1, d |-> 1]]

IdleFl == [pc |-> "idle", lang |-> <<>>, site |-> <<>>, title |-> <<>>,
           value |-> <<>>, line |-> <<>>, prevLang |-> <<>>, prevLine |-> <<>>]

IdleUtil == [pc |-> "idle"]

IdleUp == [pc |-> "idle"]

IdlePt == [pc |-> "idle"]

IdleCq == [pc |-> "idle", storage |-> FALSE, ran |-> <<>>, failed |-> "",
           berr |-> NoErr, err |-> NoErr]

\* Lines of a daily log (pageviews_test.go:17-19 and rows of every kind the
\* loop of readPageviews tells apart).
Aegypten == <<195, 132>> \o B("gypten")
LineAls2 == B("als.wikipedia ") \o Aegypten \o B(" 4623 mobile-web 2 N1P1")
LineAls3 == B("als.wikipedia ") \o Aegypten \o B(" 8911 desktop 3 A2X1")
LineAng1 == B("ang.wikipedia Lech_Wa") \o <<197, 130, 196, 153>>
            \o B("sa 10374 desktop 1 Q1")
LineThreeCols == B("only three columns")
LineNoDot == B("localhost Main 7 desktop 4 A4")
LineEnWg == B("en-wg.wikipedia Main 1 desktop 1 A1")
LineAlsEscNeg == B("als.wikipedia %C3%84gypten 2 desktop -2 A1")
LineAlsBadInt == B("als.wikipedia ") \o Aegypten \o B(" 5 desktop 1x A1")
LineAngBadUtf8 == B("ang.wikipedia %FF 1 desktop 1 A1")
LineAngBadEsc == B("ang.wikipedia 100%_x 1 desktop 0 A1")
LineAlsZero == B("als.wikipedia ") \o Aegypten \o B(" 1 desktop 0 A1")
LineAngBadRaw == B("ang.wikipedia ") \o <<255>> \o B("% 1 desktop 1 A1")

ReadLines == {LineAls2, LineAls3, LineAng1, LineThreeCols, LineNoDot, LineEnWg,
              LineAlsEscNeg}

\* The daily logs under dumpsPath for a month: one row on day 1, in the
\* even months one on day 2, the other days are empty.
DumpsOf(month) ==
    [d \in Days |->
        IF d = 1 THEN (IF month % 2 = 0 THEN <<LineAng1>> ELSE <<LineAls3>>)
        ELSE IF d = 2 /\ month % 2 = 0 THEN <<LineAls3>>
        ELSE <<>>]

-----------------------------------------------------------------------------
(* processPageviews (main.go)                                              *)

\* for i := 1; i <= 12; i++
NumMonths == 12

\* How often the pipeline is run on the same output directory.
MaxRuns == 2

IsLeap(y) == y % 4 = 0 /\ (y % 100 # 0 \/ y % 400 = 0)

DaysIn(y, m) ==
    IF m = 2 THEN (IF IsLeap(y) THEN 29 ELSE 28)
    ELSE IF m \in {4, 6, 9, 11} THEN 30 ELSE 31

\* time.Time.AddDate(0, k, 0): the month is moved, then a day past the end of
\* that month is normalised into the following month.
AddMonths(date, k) ==
    LET t == date.y * 12 + (date.m - 1) + k
        y == t \div 12
        m == (t % 12) + 1
    IN  IF date.d > DaysIn(y, m)
        THEN [y |-> IF m = 12 THEN y + 1 ELSE y,
              m |-> IF m = 12 THEN 1 ELSE m + 1,
              d |-> date.d - DaysIn(y, m)]
        ELSE [y |-> y, m |-> m, d |-> date.d]

prKeep == UNCHANGED <<testRun, cq, fl, util, up, pt, fs>>

\* The call of buildMonthlyPageviews has returned: its channels, tasks and
\* writer are gone.
noCall ==
    /\ rd' = [d \in Days |-> IdleRd]
    /\ ch' = NewChan
    /\ rg' = NewRg
    /\ sorter' = IdleSorter
    /\ outChan' = NewChan
    /\ errChan' = NewChan
    /\ comb' = NewComb
    /\ w' = <<>>
    /\ bg' = NewBg

\* The loop body calls buildMonthlyPageviews for the month of date - i months.
ProcCall ==
    /\ proc.pc = "loop"
    /\ LET m == AddMonths(proc.date, 0 - proc.i)
       IN  build' = NewBuild(m.y, m.m)
    /\ proc' = [proc EXCEPT !.pc = "call"]
    /\ input' = DumpsOf(build'.month)
    /\ faults' = {}
    /\ log' = [log EXCEPT !.pre = fs, !.preStarted = log.started,
                          !.calls = Append(@, build'.month),
                          !.sent = [d \in Days |-> <<>>], !.recv = <<>>,
                          !.first = NoErr, !.late = FALSE, !.after = FALSE,
                          !.closes = 0]
    /\ UNCHANGED <<rd, ch, rg, sorter, outChan, errChan, comb, w, bg, ctx>>
    /\ prKeep

\* buildMonthlyPageviews has returned: an error ends processPageviews, a
\* path is appended; testRun leaves the loop after the first month.
ProcReturn ==
    /\ proc.pc = "call"
    /\ build.pc = "done"
    /\ proc' = IF build.err # NoErr
               THEN [proc EXCEPT !.pc = "done", !.err = build.err, !.paths = <<>>]
               ELSE [proc EXCEPT
                       !.paths = Append(@, build.ret),
                       !.i = @ + 1,
                       !.pc = IF testRun \/ proc.i = NumMonths
                              THEN "done" ELSE "loop"]
    /\ noCall
    /\ UNCHANGED <<input, build, ctx, faults, log>>
    /\ prKeep

\* A later run of the pipeline, with a context of its own, calls
\* processPageviews again after a run that completed.
ProcAgain ==
    /\ proc.pc = "done"
    /\ proc.err = NoErr
    /\ log.runs < MaxRuns
    /\ ctx' = FALSE
    /\ proc' = [proc EXCEPT !.pc = "loop", !.i = 1, !.paths = <<>>, !.err = NoErr]
    /\ log' = [log EXCEPT !.runs = @ + 1,
                          !.prevPaths = proc.paths,
                          !.prevFs = fs,
                          !.prevStarted = log.started,
                          !.calls = <<>>]
    /\ UNCHANGED <<input, build, rd, ch, rg, sorter, outChan, errChan, comb, w,
                   bg, faults>>
    /\ prKeep

-----------------------------------------------------------------------------
(* SpecRead: one readPageviews call, its channel drained by the sorter     *)

InitRead ==
    /\ testRun = FALSE
    /\ \E q \in SeqsUpTo(ReadLines, MaxLines) :
          input = [d \in Days |-> IF d = 1 THEN q ELSE <<>>]
    /\ rd = [d \in Days |-> IF d = 1 THEN [IdleRd EXCEPT !.pc = "scan"] ELSE IdleRd]
    /\ ch = NewChan
    /\ rg = [NewRg EXCEPT !.pc = "wait"]
    /\ sorter = [pc |-> "chunk", data |-> <<>>]
    /\ outChan = NewChan
    /\ errChan = NewChan
    /\ comb = NewComb
    /\ w = <<>>
    /\ bg = NewBg
    /\ ctx = FALSE
    /\ build = IdleBuild
    /\ fs = EmptyDir
    /\ faults = {}
    /\ proc = IdleProc
    /\ cq = IdleCq
    /\ fl = IdleFl
    /\ util = IdleUtil
    /\ up = IdleUp
    /\ pt = IdlePt
    /\ log = NewLog

NextRead ==
    \/ \E d \in Days : ReadStep(d)
    \/ \E d \in Days : ReadSend(d)
    \/ \E d \in Days : ReadCancelled(d)
    \/ \E d \in Days : ReadFails(d)
    \/ SortRecv
    \/ Cancel

SpecRead == InitRead /\ [][NextRead]_vars

\* The rows of a log that pass every `continue` of the loop, in order.
validRows(lines) ==
    SelectSeq([i \in 1..Len(lines) |-> parseRow(lines[i])], LAMBDA r : r.ok)

\* The rows among them whose site has a '.'.
dotRows(lines) ==
    SelectSeq(validRows(lines), LAMBDA r : IndexByte(r.site, 46) >= 0)

\* Row i starts a maximal run of rows with the same (site, decoded title).
RunStart(v, i) ==
    i = 1 \/ v[i].site # v[i - 1].site \/ v[i].title # v[i - 1].title

\* The last row of the run that starts at i.
RunEnd(v, i) ==
    CHOOSE j \in i..Len(v) :
        /\ \A k \in (i + 1)..j : ~RunStart(v, k)
        /\ j = Len(v) \/ RunStart(v, j + 1)

RECURSIVE SumCounts(_, _, _)
SumCounts(v, i, j) == IF i > j THEN 0 ELSE v[i].c + SumCounts(v, i + 1, j)

RunSum(v, i) == SumCounts(v, i, RunEnd(v, i))

\* The starts of the runs whose counts sum to more than 0, in order.
RECURSIVE PositiveRuns(_, _)
PositiveRuns(v, i) ==
    IF i > Len(v) THEN <<>>
    ELSE (IF RunStart(v, i) /\ RunSum(v, i) > 0 THEN <<i>> ELSE <<>>)
         \o PositiveRuns(v, i + 1)

\* One normalised line per run of v that starts at one of `starts`.
RunLines(v, starts) ==
    [k \in 1..Len(starts) |->
        emitLine(v[starts[k]].site, v[starts[k]].title, RunSum(v, starts[k]))]

\* readPageviews has returned nil after reading its whole input.
ReadDone(d) ==
    /\ rd[d].pc = "done" /\ rd[d].err = NoErr
    /\ testRun => Len(input[d]) < TestRunLimit

-----------------------------------------------------------------------------
(* SpecReadQuiet: one readPageviews call on logs with rows that give no line *)

\* One readPageviews call about to scan a log of up to MaxLines rows of `rows`.
InitReadFrom(rows) ==
    /\ testRun = FALSE
    /\ \E q \in SeqsUpTo(rows, MaxLines) :
          input = [d \in Days |-> IF d = 1 THEN q ELSE <<>>]
    /\ rd = [d \in Days |-> IF d = 1 THEN [IdleRd EXCEPT !.pc = "scan"] ELSE IdleRd]
    /\ ch = NewChan
    /\ rg = [NewRg EXCEPT !.pc = "wait"]
    /\ sorter = [pc |-> "chunk", data |-> <<>>]
    /\ outChan = NewChan
    /\ errChan = NewChan
    /\ comb = NewComb
    /\ w = <<>>
    /\ bg = NewBg
    /\ ctx = FALSE
    /\ build = IdleBuild
    /\ fs = EmptyDir
    /\ faults = {}
    /\ proc = IdleProc
    /\ cq = IdleCq
    /\ fl = IdleFl
    /\ util = IdleUtil
    /\ up = IdleUp
    /\ pt = IdlePt
    /\ log = NewLog

\* Rows of a site without '.', of en-wg.wikipedia, with a negative and with
\* a zero count, and rows that are counted.
QuietLines == {LineAls2, LineAng1, LineNoDot, LineEnWg, LineAlsEscNeg, LineAlsZero}

InitReadQuiet == InitReadFrom(QuietLines)

SpecReadQuiet == InitReadQuiet /\ [][NextRead]_vars

\* A site for which emitPageviews never offers a line: it has no '.', or it
\* is en-wg.wikipedia.
IsSilentSite(site) == IndexByte(site, 46) < 0 \/ site = S["en-wg.wikipedia"]

\* The key of an emitted line: the text before its space.
LineKey(line) == Slice(line, 0, IndexByte(line, 32))

\* The keys of the lines that stand for the rows of the log that are read
\* and whose site is not silent, each with the index of its row.
LoudKeys(lines) ==
    UNION {LET row == parseRow(lines[k])
           IN  IF row.ok /\ ~IsSilentSite(row.site)
               THEN {<<k, LineKey(emitLine(row.site, row.title, 1))>>}
               ELSE {} : k \in 1..Len(lines)}

\* C13: no line is emitted for a row whose site has no '.' or is
\* en-wg.wikipedia, whatever rows surround it: every line sent or offered to
\* the channel carries the key of a row that is neither, there are at most
\* as many lines as such rows, and a log made of such rows only gives no
\* line at all.
C13_SilentSites ==
    LET loud == LoudKeys(input[1])
        keys == {p[2] : p \in loud}
    IN  /\ \A i \in 1..Len(log.sent[1]) : LineKey(log.sent[1][i]) \in keys
        /\ rd[1].pc = "emit" => LineKey(rd[1].line) \in keys
        /\ Len(log.sent[1]) + (IF rd[1].pc = "emit" THEN 1 ELSE 0)
              <= Cardinality(loud)
        /\ loud = {} => log.sent[1] = <<>> /\ rd[1].pc # "emit"

\* A log that starts with an en-wg.wikipedia row and a row of a site without
\* '.', both with counts > 0, has been read: only the third row gave a line.
C13_Witness ==
    /\ ReadDone(1)
    /\ input[1] = <<LineEnWg, LineNoDot, LineAls2>>
    /\ log.sent[1] = <<B("gsw.wikipedia/") \o <<195, 164>> \o B("gypten 2")>>

\* The value of an emitted line: the text after its space.
LineValue(line) == Slice(line, IndexByte(line, 32) + 1, Len(line))

\* The line ends in a decimal count greater than 0.
HasPositiveCount(line) ==
    /\ IndexByte(line, 32) >= 0
    /\ ParseIntOk(LineValue(line))
    /\ ParseIntVal(LineValue(line)) > 0

\* C14: every line readPageviews sends on the channel, or offers to it,
\* carries a count greater than 0, whatever rows were read, rows with zero
\* and negative counts among them.
C14_PositiveCounts ==
    /\ \A i \in 1..Len(log.sent[1]) : HasPositiveCount(log.sent[1][i])
    /\ \A i \in 1..Len(ch.buf) : HasPositiveCount(ch.buf[i])
    /\ rd[1].pc = "emit" => HasPositiveCount(rd[1].line)

\* A log with a row of count -2, a row of count 1 and a row of count 0 has
\* been read: the only line sent is the one of the count 1.
C14_Witness ==
    /\ ReadDone(1)
    /\ input[1] = <<LineAlsEscNeg, LineAng1, LineAlsZero>>
    /\ log.sent[1] = <<B("ang.wikipedia/lech_wa") \o <<197, 130, 196, 153>>
                       \o B("sa 1")>>

-----------------------------------------------------------------------------
(* SpecReadSkip: one readPageviews call on logs with rows it skips         *)

\* Rows with fewer than six columns, with a fifth column that is no int64,
\* with a title that decodes to invalid UTF-8, with a title that cannot be
\* decoded and is valid or invalid as it stands, and rows that are counted.
SkipLines == {LineAls2, LineAng1, LineThreeCols, LineAlsBadInt, LineAngBadUtf8,
              LineAngBadEsc, LineAngBadRaw}

InitReadSkip == InitReadFrom(SkipLines)

SpecReadSkip == InitReadSkip /\ [][NextRead]_vars

\* A row with another number of columns than 6, with a column 4 (counted
\* from 0) that is no int64, or whose percent-decoded title (the raw title
\* when it cannot be decoded) is not valid UTF-8.
IsSkippedRow(line) ==
    LET cols == Fields(line) IN
    \/ Len(cols) # 6
    \/ ~ParseIntOk(cols[5])
    \/ ~ValidString(IF QueryUnescapeOk(cols[2]) THEN QueryUnescape(cols[2])
                    ELSE cols[2])

\* The lines a readPageviews call emits from worker state r on, when every
\* emission is taken by the channel and the scanner does not fail.
RECURSIVE readRun(_, _)
readRun(r, lines) ==
    IF r.pc = "done" THEN <<>>
    ELSE LET st == readPageviews(r, lines, FALSE)
         IN  (IF st.emit THEN <<st.line>> ELSE <<>>) \o readRun(st.next, lines)

\* The lines readPageviews emits for a log it reads to its end.
readOutput(lines) == readRun([IdleRd EXCEPT !.pc = "scan"], lines)

\* C12: readPageviews skips a row that has not exactly 6 columns, whose
\* column 4 is no int64 or whose decoded title is not valid UTF-8: what a
\* call that returns nil has emitted is what it emits for the log without
\* these rows, and the only errors a call returns are the scanner's and the
\* cancellation at an emission.  The empty log and the log of one
\* three-column line give no line and, unless the scanner fails, no error.
C12_SkipsBadRows ==
    /\ ReadDone(1) =>
          log.sent[1] = readOutput(SelectSeq(input[1], LAMBDA l : ~IsSkippedRow(l)))
    /\ rd[1].err = "read" => "read" \in faults
    /\ rd[1].err = Canceled => ctx /\ rd[1].pos > 0
    /\ rd[1].err \in {NoErr, "read", Canceled}
    /\ input[1] \in {<<>>, <<LineThreeCols>>} =>
          /\ log.sent[1] = <<>>
          /\ rd[1].err \in {NoErr, "read"}
          /\ (rd[1].pc = "done" /\ "read" \notin faults) => rd[1].err = NoErr

\* A row whose title decodes to invalid UTF-8 has been skipped between two
\* rows of one page: their counts are emitted as one sum.
C12_Witness ==
    /\ ReadDone(1)
    /\ input[1] = <<LineAls2, LineAngBadUtf8, LineAls2>>
    /\ log.sent[1] = <<B("gsw.wikipedia/") \o <<195, 164>> \o B("gypten 4")>>

-----------------------------------------------------------------------------
(* SpecCombine: one combineCounts call, fed line by line by its caller     *)

CombineLines == {B("a 1"), B("a 2"), B("b 3"), B("b -3"), B("a x"), B("a 1 2"),
                 B("b")}

InitCombine ==
    /\ testRun = FALSE
    /\ \E q \in SeqsUpTo(CombineLines, MaxLines) :
          /\ input = [d \in Days |-> IF d = 1 THEN q ELSE <<>>]
          /\ sorter = [pc |-> "feed", data |-> q]
    /\ rd = [d \in Days |-> IdleRd]
    /\ ch = NewChan
    /\ rg = NewRg
    /\ outChan = NewChan
    /\ errChan = NewChan
    /\ comb = [NewComb EXCEPT !.pc = "run"]
    /\ w = <<>>
    /\ bg = NewBg
    /\ ctx = FALSE
    /\ build = IdleBuild
    /\ fs = EmptyDir
    /\ faults = {}
    /\ proc = IdleProc
    /\ cq = IdleCq
    /\ fl = IdleFl
    /\ util = IdleUtil
    /\ up = IdleUp
    /\ pt = IdlePt
    /\ log = NewLog

NextCombine ==
    \/ FeedSend
    \/ FeedClose
    \/ CombineRecv
    \/ CombineWriteFails
    \/ CombineEOF
    \/ CombineEOFWriteFails
    \/ CombineCancelled
    \/ Cancel

SpecCombine == InitCombine /\ [][NextCombine]_vars

\* A line of the form "<key> <int>".
IsCountLine(line) == Len(Split(line, 32)) = 2 /\ ParseIntOk(Split(line, 32)[2])

\* A line with exactly two fields whose second is no int64.
IsBadCountLine(line) == Len(Split(line, 32)) = 2 /\ ~ParseIntOk(Split(line, 32)[2])

KeyOf(line) == Split(line, 32)[1]
CountOf(line) == ParseIntVal(Split(line, 32)[2])

\* Every line is "<key> <int>" and the keys do not decrease.
SortedByKey(lines) ==
    /\ \A i \in 1..Len(lines) : IsCountLine(lines[i])
    /\ \A i \in 1..(Len(lines) - 1) : ~Less(KeyOf(lines[i + 1]), KeyOf(lines[i]))

\* The sum of the counts of the lines with this key.
RECURSIVE KeySum(_, _)
KeySum(lines, key) ==
    IF lines = <<>> THEN 0
    ELSE (IF KeyOf(Head(lines)) = key THEN CountOf(Head(lines)) ELSE 0)
         + KeySum(Tail(lines), key)

\* One "<key> <sum>\n" per distinct key with a sum > 0, in the order in
\* which the keys first occur.
RECURSIVE KeyTotals(_, _)
KeyTotals(lines, i) ==
    IF i > Len(lines) THEN <<>>
    ELSE (IF /\ \A j \in 1..(i - 1) : KeyOf(lines[j]) # KeyOf(lines[i])
             /\ KeySum(lines, KeyOf(lines[i])) > 0
          THEN <<KeyOf(lines[i]) \o <<32>>
                 \o FormatInt(KeySum(lines, KeyOf(lines[i]))) \o <<10>>>>
          ELSE <<>>)
         \o KeyTotals(lines, i + 1)

CombineDone == comb.pc = "done" /\ comb.err = NoErr

\* C2: for input lines "<key> <int>" sorted by key, combineCounts writes
\* exactly one line "<key> <sum>" per distinct key whose sum is > 0, in the
\* order of the input keys, and nothing for a key whose sum is <= 0.
C2_SortedTotals ==
    (CombineDone /\ SortedByKey(input[1])) => w = KeyTotals(input[1], 1)

\* Sorted input with a key summing to 3 (a 1, a 2) and a key summing to -3
\* has been combined.
C2_Witness ==
    /\ CombineDone
    /\ input[1] = <<B("a 1"), B("a 2"), B("b -3")>>
    /\ w = <<B("a 3") \o <<10>>>>

\* The lines combineCounts does not skip.
countLines(lines) == SelectSeq(lines, LAMBDA l : Len(Split(l, 32)) = 2)

\* Line i starts a maximal run of lines with the same key.
KeyRunStart(v, i) == i = 1 \/ KeyOf(v[i]) # KeyOf(v[i - 1])

KeyRunEnd(v, i) ==
    CHOOSE j \in i..Len(v) :
        /\ \A k \in (i + 1)..j : ~KeyRunStart(v, k)
        /\ j = Len(v) \/ KeyRunStart(v, j + 1)

RECURSIVE SumLines(_, _, _)
SumLines(v, i, j) == IF i > j THEN 0 ELSE CountOf(v[i]) + SumLines(v, i + 1, j)

\* One "<key> <sum>\n" per maximal run of equal keys with a sum > 0.
RECURSIVE KeyRunTotals(_, _)
KeyRunTotals(v, i) ==
    IF i > Len(v) THEN <<>>
    ELSE (IF KeyRunStart(v, i) /\ SumLines(v, i, KeyRunEnd(v, i)) > 0
          THEN <<KeyOf(v[i]) \o <<32>>
                 \o FormatInt(SumLines(v, i, KeyRunEnd(v, i))) \o <<10>>>>
          ELSE <<>>)
         \o KeyRunTotals(v, i + 1)

\* The keys of the written lines are pairwise different.
NoKeyTwice(out) ==
    \A i, j \in 1..Len(out) : i # j => KeyOf(out[i]) # KeyOf(out[j])

\* The keys of the two-field lines do not decrease.
KeysSorted(lines) ==
    LET v == countLines(lines)
    IN  \A i \in 1..(Len(v) - 1) : ~Less(KeyOf(v[i + 1]), KeyOf(v[i]))

\* C9 as stated: a line whose key is smaller than the key before it makes
\* combineCounts fail, and no key is ever written twice.
C9_FailsOnUnsorted ==
    /\ CombineDone => KeysSorted(input[1])
    /\ NoKeyTwice(w)

\* C9 amended: combineCounts does not check the order of its input.  It
\* returns nil on out-of-order input and writes one line per maximal run of
\* equal keys whose counts sum to more than 0, so a key that comes back after
\* another key is written again; when the keys do not decrease, no key is
\* written twice.
C9_OneLinePerKeyRun ==
    /\ CombineDone => w = KeyRunTotals(countLines(input[1]), 1)
    /\ KeysSorted(input[1]) => NoKeyTwice(w)

\* Out-of-order input (a, b, a) has been combined without error and the key
\* a has been written twice.
C9_Witness ==
    /\ CombineDone
    /\ input[1] = <<B("a 1"), B("b 3"), B("a 2")>>
    /\ w = <<B("a 1") \o <<10>>, B("b 3") \o <<10>>, B("a 2") \o <<10>>>>

\* C10: a received line with exactly two fields whose second field is no
\* int64 is the last line combineCounts receives: it has returned the parse
\* error (to the errgroup, too) and takes nothing more from the channel.
C10_ParseErrorFatal ==
    /\ \A i \in 1..Len(log.recv) :
          IsBadCountLine(log.recv[i]) =>
              /\ i = Len(log.recv)
              /\ comb.pc = "done" /\ comb.err = "parse" /\ bg.err = "parse"
    /\ comb.err = "parse" =>
          /\ log.recv # <<>>
          /\ IsBadCountLine(log.recv[Len(log.recv)])

\* The parse error has been returned while input was still waiting.
C10_Witness ==
    /\ comb.pc = "done" /\ comb.err = "parse"
    /\ sorter.data # <<>> \/ outChan.buf # <<>>
    /\ IsBadCountLine(log.recv[Len(log.recv)])

\* The run of combineCounts over the lines received so far when no write
\* fails: what has been written and the state of the loop.
RECURSIVE combineAll(_)
combineAll(lines) ==
    IF lines = <<>> THEN [w |-> <<>>, c |-> [NewComb EXCEPT !.pc = "run"]]
    ELSE LET before == combineAll(SubSeq(lines, 1, Len(lines) - 1))
             st == combineCounts(before.c, lines[Len(lines)])
         IN  IF before.c.pc = "done" THEN before
             ELSE [w |-> before.w \o st.out, c |-> st.next]

\* What combineCounts has written when it returns nil at the end of lines.
combineOutput(lines) ==
    LET r == combineAll(lines)
    IN  r.w \o writeCount(r.c.lastKey, r.c.lastCount)

\* A line that does not split into exactly two space-separated fields.
IsSkippedLine(line) == Len(Split(line, 32)) # 2

\* C11: combineCounts skips every line that does not split into exactly two
\* space-separated fields.  While it runs, what it has written and the key and
\* count it holds are those for the received lines with the skipped lines
\* removed; when it returns nil, its output is the output for the input with
\* these lines removed; and the last line received before a parse error is
\* never a skipped line.
C11_SkipsNonPairLines ==
    /\ comb.pc = "run" =>
          /\ w = combineAll(countLines(log.recv)).w
          /\ comb = combineAll(countLines(log.recv)).c
    /\ CombineDone => w = combineOutput(countLines(input[1]))
    /\ comb.err = "parse" => ~IsSkippedLine(log.recv[Len(log.recv)])

\* A three-field line between two lines of the key a has been skipped: the
\* two counts are written as one sum.
C11_Witness ==
    /\ CombineDone
    /\ input[1] = <<B("a 1"), B("a 1 2"), B("a 2")>>
    /\ w = <<B("a 3") \o <<10>>>>

-----------------------------------------------------------------------------
(* SpecBuild: one buildMonthlyPageviews call with its tasks                *)

\* The month that is built, and a month built before it.
BuildDate == [y |-> 2024, m |-> 2]
EarlierFinal == outPath(2024, 1)

\* The daily logs of the month: days 1 and 2, the other days are empty.
MonthLogs ==
    { <<<<LineAls2, LineAng1>>, <<LineAls3>>>>,
      <<<<LineAls3>>, <<LineAlsEscNeg>>>>,
      <<<<LineAng1, LineNoDot>>, <<>>>> }

File(data) == [data |-> data]

\* Output directories: empty; an earlier month and a temp file left by a
\* failed run; the month's final file and an earlier month.
OutDirs ==
    { EmptyDir,
      WithFile(WithFile(EmptyDir, EarlierFinal, File(<<B("x 1") \o <<10>>>>)),
               tmpPath(BuildDate.y, BuildDate.m), File(<<B("y 2") \o <<10>>>>)),
      WithFile(WithFile(EmptyDir, EarlierFinal, File(<<B("x 1") \o <<10>>>>)),
               outPath(BuildDate.y, BuildDate.m), File(<<B("z 3") \o <<10>>>>)) }

InitBuild ==
    /\ testRun = FALSE
    /\ \E logs \in MonthLogs :
          input = [d \in Days |-> IF d <= 2 THEN logs[d] ELSE <<>>]
    /\ fs \in OutDirs
    /\ build = NewBuild(BuildDate.y, BuildDate.m)
    /\ rd = [d \in Days |-> IdleRd]
    /\ ch = NewChan
    /\ rg = NewRg
    /\ sorter = IdleSorter
    /\ outChan = NewChan
    /\ errChan = NewChan
    /\ comb = NewComb
    /\ w = <<>>
    /\ bg = NewBg
    /\ ctx = FALSE
    /\ faults = {}
    /\ proc = IdleProc
    /\ cq = IdleCq
    /\ fl = IdleFl
    /\ util = IdleUtil
    /\ up = IdleUp
    /\ pt = IdlePt
    /\ log = [NewLog EXCEPT !.pre = fs]

\* The steps of the worker of day d.
ReaderTask(d) ==
    \/ OpenFile(d)
    \/ OpenFails(d)
    \/ ReadStep(d)
    \/ ReadSend(d)
    \/ ReadCancelled(d)
    \/ ReadFails(d)

\* The steps of readMonthlyPageviews once its workers are started.
MonthlyTask ==
    \/ ReadMonthlyWait
    \/ ReadMonthlyReturn

\* The steps of sorter.Sort and of the merge it starts.
SorterTask ==
    \/ SortRecv
    \/ SortInputClosed
    \/ SortCancelled
    \/ SortFails
    \/ MergeSend
    \/ MergeDone
    \/ MergeCancelled
    \/ MergeFails

\* The steps of combineCounts.
CombineTask ==
    \/ CombineRecv
    \/ CombineWriteFails
    \/ CombineEOF
    \/ CombineEOFWriteFails
    \/ CombineCancelled

\* The steps of the tasks started by buildMonthlyPageviews.
TaskStep ==
    \/ \E d \in Days : ReaderTask(d)
    \/ MonthlyTask
    \/ SorterTask
    \/ CombineTask

\* The steps of buildMonthlyPageviews itself.
BuildStep ==
    \/ BuildExists
    \/ BuildStatFails
    \/ BuildCreateFails
    \/ BuildStart
    \/ BuildWait
    \/ BuildErrChan
    \/ BuildWriterClose
    \/ BuildWriterCloseFails
    \/ BuildSync
    \/ BuildSyncFails
    \/ BuildFileClose
    \/ BuildFileCloseFails
    \/ BuildRename
    \/ BuildRenameFails

NextBuild == TaskStep \/ BuildStep \/ Cancel

SpecBuild == InitBuild /\ [][NextBuild]_vars

\* A select with a ready case returns: a task that stays at a select whose
\* <-ctx.Done() case is ready takes it.
SpecBuildFair ==
    /\ SpecBuild
    /\ \A d \in Days : WF_vars(ReadCancelled(d))
    /\ WF_vars(CombineCancelled)

\* The lines a day's log makes its worker emit.
EmittedLines(lines) ==
    LET v == validRows(lines)
    IN  RunLines(v, SelectSeq(PositiveRuns(v, 1),
                              LAMBDA i : IndexByte(v[i].site, 46) >= 0))

\* One line "<WikiKey> <count>" per row of a day's log that passes the
\* filters of the loop and has a site with a '.'.
RowLines(lines) ==
    LET v == dotRows(lines)
    IN  [i \in 1..Len(v) |-> emitLine(v[i].site, v[i].title, v[i].c)]

\* The lines the workers of days 1..n emit, day after day.
RECURSIVE AllEmitted(_)
AllEmitted(n) ==
    IF n = 0 THEN <<>> ELSE AllEmitted(n - 1) \o EmittedLines(input[n])

\* The rows of days 1..n as "<WikiKey> <count>" lines, day after day.
RECURSIVE AllRows(_)
AllRows(n) == IF n = 0 THEN <<>> ELSE AllRows(n - 1) \o RowLines(input[n])

\* A set of strings in increasing order.
RECURSIVE SortSet(_)
SortSet(set) ==
    IF set = {} THEN <<>>
    ELSE LET least == CHOOSE x \in set : \A y \in set : ~Less(y, x)
         IN  <<least>> \o SortSet(set \ {least})

\* The month's file for these "<WikiKey> <count>" lines: the keys whose
\* counts sum to more than 0, in increasing order, each with its sum.
MonthContent(lines) ==
    LET keys == SortSet({KeyOf(lines[i]) : i \in
                            {j \in 1..Len(lines) : KeySum(lines, KeyOf(lines[j])) > 0}})
    IN  [k \in 1..Len(keys) |->
            keys[k] \o <<32>> \o FormatInt(KeySum(lines, keys[k])) \o <<10>>]

\* The call has built the month and returned its path.
BuildOk == build.pc = "done" /\ build.err = NoErr /\ log.started > log.preStarted

MonthFile == fs[outPath(build.year, build.month)].data

\* What the file names as key of a line "<key> <count>\n".
StrictlyIncreasing(data) ==
    \A i \in 1..(Len(data) - 1) : Less(KeyOf(data[i]), KeyOf(data[i + 1]))

\* C3 as stated: whatever the interleaving, the month's file has its
\* WikiKeys strictly increasing, each once, and the count of a WikiKey is
\* the total of the counts of its rows over all days, when that is > 0.
C3_MonthTotals ==
    BuildOk =>
        /\ StrictlyIncreasing(MonthFile)
        /\ MonthFile = MonthContent(AllRows(NumDays))

\* C3 amended: whatever the interleaving, the month's file has its WikiKeys
\* strictly increasing, each once, and the count of a WikiKey is the sum of
\* the lines the day workers emit for it, that is of the sums of its runs of
\* consecutive rows that are > 0 (a run that sums to 0 or less is left out
\* of the total instead of being subtracted).
C3_MonthRunTotals ==
    BuildOk =>
        /\ StrictlyIncreasing(MonthFile)
        /\ MonthFile = MonthContent(AllEmitted(NumDays))

\* The month of the two days als 2, ang 1 and als 3 has been built: the
\* file is sorted and als (gsw) has the total of both days.
C3_Witness ==
    /\ BuildOk
    /\ input[1] = <<LineAls2, LineAng1>> /\ input[2] = <<LineAls3>>
    /\ MonthFile = <<B("ang.wikipedia/lech_wa") \o <<197, 130, 196, 153>>
                     \o B("sa 1") \o <<10>>,
                     B("gsw.wikipedia/") \o <<195, 164>> \o B("gypten 5")
                     \o <<10>>>>

\* The files of a directory apart from the temp file of the month.
Finals(dir) ==
    LET tmp == outPath(build.year, build.month) \o S[".tmp"]
    IN  [q \in DOMAIN dir \ {tmp} |-> dir[q]]

\* C4: until buildMonthlyPageviews returns its path, whatever it returns
\* and wherever it stops, the directory is as before the call apart from
\* the month's .tmp file: the final path is not created and the final files
\* of other months are unchanged; a call that returns an error returns no
\* path.
C4_NoFinalOnFailure ==
    /\ (build.pc # "idle" /\ ~(build.pc = "done" /\ build.err = NoErr))
          => Finals(fs) = Finals(log.pre)
    /\ (build.pc = "done" /\ build.err # NoErr) => build.ret = NoPath

\* The close of the compressed writer has failed: the call has returned the
\* error, the temp file is left, the final file is absent and the earlier
\* month is as it was.
C4_Witness ==
    /\ build.pc = "done" /\ build.err = "wclose"
    /\ Exists(tmpPath(build.year, build.month))
    /\ ~Exists(outPath(build.year, build.month))
    /\ Exists(EarlierFinal) /\ fs[EarlierFinal] = log.pre[EarlierFinal]

\* C6 as stated: the rename happens only after the writer's close, the temp
\* file's sync and the temp file's close have all succeeded; a failure of
\* any of them makes the call fail.
C6_RenameAfterSyncAndClose ==
    /\ BuildOk => build.syncOk /\ build.closeOk
    /\ faults \cap {"wclose", "sync", "fclose"} # {} => ~BuildOk

\* What holds of C6: a failure of the compressed writer's close prevents
\* the rename.
C6_WriterCloseFatal ==
    "wclose" \in faults =>
        /\ build.pc = "done" /\ build.err = "wclose"
        /\ Finals(fs) = Finals(log.pre)

\* tmpFile.Sync() has failed and the call has renamed the temp file and
\* returned the final path.
C6_Witness ==
    /\ BuildOk
    /\ "sync" \in faults /\ ~build.syncOk
    /\ Exists(outPath(build.year, build.month))
    /\ ~Exists(tmpPath(build.year, build.month))

\* A day worker has returned an error.
WorkerFailed == log.first # NoErr

\* C7 as stated: once a day worker has returned an error, no sibling gets
\* another line onto the channel, and buildMonthlyPageviews returns the
\* error of that worker.
C7_SiblingsStopAtOnce ==
    /\ ~log.after
    /\ (build.pc = "done" /\ WorkerFailed) => build.err = log.first

\* C7 amended: the first error of a day worker is kept by the errgroup and
\* cancels its context; from then on a sibling at a channel emission can
\* return the cancellation error, and does so when the channel is full, but
\* while the channel has room the select may still send its line;
\* readMonthlyPageviews returns that first error; buildMonthlyPageviews
\* returns an error, that one unless combineCounts returned one before, and
\* no path, and the final file is not created.
C7_FirstErrorFailsMonth ==
    /\ rg.err = log.first
    /\ WorkerFailed => rg.cancelled
    /\ \A d \in Days :
          (WorkerFailed /\ rd[d].pc = "emit") =>
              /\ ENABLED ReadCancelled(d)
              /\ Len(ch.buf) = ChanCap => ~ENABLED ReadSend(d)
    /\ (rg.pc = "done" /\ WorkerFailed) => bg.err # NoErr
    /\ (build.pc = "done" /\ WorkerFailed) =>
          /\ build.err # NoErr /\ build.ret = NoPath
          /\ build.err = log.first \/ (comb.err # NoErr /\ build.err = comb.err)
          /\ Finals(fs) = Finals(log.pre)

\* A daily log was missing: its sibling returned the cancellation error at
\* an emission and the call returned the error of the missing file.
C7_Witness ==
    /\ build.pc = "done" /\ build.err = "open" /\ log.first = "open"
    /\ \E d \in Days : rd[d].err = Canceled
    /\ ~Exists(outPath(build.year, build.month))

\* A day worker is in emitPageviews and the channel is full.
Blocked(d) == rd[d].pc = "emit" /\ Len(ch.buf) = ChanCap

\* combineCounts waits for a line of an open, empty channel.
Waiting == comb.pc = "run" /\ outChan.buf = <<>> /\ ~outChan.closed

\* C8: with its context cancelled, a day worker blocked in emitPageviews on
\* the full channel, and combineCounts waiting for its input channel, do
\* not stay blocked, and the step they take out of that state is the return
\* of the context's cancellation error.
C8_CancelUnblocks ==
    /\ [][\A d \in Days :
            (readCtxDone /\ Blocked(d) /\ rd'[d] # rd[d])
                => (rd'[d].pc = "done" /\ rd'[d].err = Canceled)]_vars
    /\ [][(buildCtxDone /\ Waiting /\ comb' # comb)
            => (comb'.pc = "done" /\ comb'.err = Canceled)]_vars
    /\ \A d \in Days : (readCtxDone /\ Blocked(d)) ~> ~Blocked(d)
    /\ (buildCtxDone /\ Waiting) ~> ~Waiting

\* A day worker has returned the cancellation error while the channel was
\* full and the sorter had stopped receiving.
C8_Witness ==
    /\ \E d \in Days : rd[d].pc = "done" /\ rd[d].err = Canceled
    /\ Len(ch.buf) = ChanCap
    /\ sorter.pc = "done"

-----------------------------------------------------------------------------
(* Spec: processPageviews, run on an output directory, then run again      *)

\* The dates processPageviews is called with.
Epochs == {[y |-> 2024, m |-> 3, d |-> 15], [y |-> 2024, m |-> 3, d |-> 31]}

Init ==
    /\ testRun \in BOOLEAN
    /\ \E date \in Epochs : proc = [IdleProc EXCEPT !.pc = "loop", !.date = date]
    /\ cq = IdleCq
    /\ fl = IdleFl
    /\ util = IdleUtil
    /\ up = IdleUp
    /\ pt = IdlePt
    /\ input = [d \in Days |-> <<>>]
    /\ fs \in {EmptyDir,
               WithFile(EmptyDir, tmpPath(BuildDate.y, BuildDate.m), File(<<B("y 2") \o <<10>>>>))}
    /\ build = IdleBuild
    /\ rd = [d \in Days |-> IdleRd]
    /\ ch = NewChan
    /\ rg = NewRg
    /\ sorter = IdleSorter
    /\ outChan = NewChan
    /\ errChan = NewChan
    /\ comb = NewComb
    /\ w = <<>>
    /\ bg = NewBg
    /\ ctx = FALSE
    /\ faults = {}
    /\ log = NewLog

ProcStep ==
    \/ ProcCall
    \/ ProcReturn
    \/ ProcAgain

Next == ProcStep \/ BuildStep \/ TaskStep \/ Cancel

Spec == Init /\ [][Next]_vars

\* C5: when the final file of the month exists at the call,
\* buildMonthlyPageviews starts no day worker, leaves the directory as it
\* is (no .tmp file created or truncated, the file not modified) and
\* returns the path, or the error of os.Stat; so a run of processPageviews
\* after a run that completed leaves the directory as it is, builds nothing
\* and returns the same paths.
C5_SkipIfExists ==
    /\ (build.pc # "idle" /\ outPath(build.year, build.month) \in DOMAIN log.pre) =>
          /\ build.pc \in {"stat", "done"}
          /\ fs = log.pre
          /\ log.started = log.preStarted
          /\ \A d \in Days : rd[d] = IdleRd
          /\ build.pc = "done" =>
                \/ build.err = NoErr /\ build.ret = outPath(build.year, build.month)
                \/ build.err = "stat" /\ "stat" \in faults /\ build.ret = NoPath
    /\ log.runs > 1 =>
          /\ fs = log.prevFs
          /\ log.started = log.prevStarted
          /\ (proc.pc = "done" /\ proc.err = NoErr) => proc.paths = log.prevPaths

\* The second run over the twelve months built by the first has returned.
C5_Witness ==
    /\ log.runs = 2 /\ proc.pc = "done" /\ proc.err = NoErr
    /\ ~testRun /\ Len(proc.paths) = NumMonths
    /\ log.prevStarted > 0
    /\ fs = log.prevFs /\ proc.paths = log.prevPaths

\* The calendar month i months before the month of date.
MonthBefore(date, i) ==
    LET t == date.y * 12 + (date.m - 1) - i
    IN  [y |-> t \div 12, m |-> (t % 12) + 1]

\* The paths of the months built so far by the running processPageviews.
BuiltPaths ==
    proc.paths \o (IF proc.pc = "call" THEN <<outPath(build.year, build.month)>>
                   ELSE <<>>)

\* A full run (no testRun) has returned its paths.
FullRunDone == proc.pc = "done" /\ proc.err = NoErr /\ ~testRun

\* C15 as stated: for every epoch date a full run returns the paths of the
\* 12 calendar months before the epoch's month, one each, and no call is
\* for the epoch's own month or for a month already built in this run.
C15_TwelveMonths ==
    /\ FullRunDone =>
          proc.paths = [i \in 1..NumMonths |->
                          outPath(MonthBefore(proc.date, i).y,
                                  MonthBefore(proc.date, i).m)]
    /\ proc.pc = "call" =>
          <<build.year, build.month>> # <<proc.date.y, proc.date.m>>
    /\ \A i, j \in 1..Len(BuiltPaths) : i # j => BuiltPaths[i] # BuiltPaths[j]

\* What holds: call i of a run is for the month of date.AddDate(0, -i, 0),
\* which is the i-th month before the epoch's month when the epoch's day
\* exists in that month (always for a day up to the 28th); otherwise it is
\* the month after it.  A testRun returns the first path only.
C15_MonthsOfAddDate ==
    /\ \A i \in 1..Len(BuiltPaths) :
          LET b == MonthBefore(proc.date, i)
              a == MonthBefore(proc.date, i - 1)
          IN  BuiltPaths[i] = IF proc.date.d <= DaysIn(b.y, b.m)
                              THEN outPath(b.y, b.m) ELSE outPath(a.y, a.m)
    /\ FullRunDone => Len(proc.paths) = NumMonths
    /\ (proc.pc = "done" /\ proc.err = NoErr /\ testRun) => Len(proc.paths) = 1
    /\ proc.date.d <= 28 =>
          /\ proc.pc = "call" =>
                <<build.year, build.month>> # <<proc.date.y, proc.date.m>>
          /\ \A i, j \in 1..Len(BuiltPaths) : i # j => BuiltPaths[i] # BuiltPaths[j]

\* A full run for the epoch 2024-03-31 has returned: its first path is the
\* file of March 2024, the epoch's own month, December 2023 is there twice
\* and February 2024 is missing.
C15_Witness ==
    /\ FullRunDone
    /\ proc.date = [y |-> 2024, m |-> 3, d |-> 31]
    /\ proc.paths[1] = outPath(2024, 3)
    /\ proc.paths[3] = outPath(2023, 12) /\ proc.paths[4] = outPath(2023, 12)
    /\ \A i \in 1..NumMonths : proc.paths[i] # outPath(2024, 2)

-----------------------------------------------------------------------------
(* SpecPipeline: computeQRank and the pipeline it hands over to            *)

\* The stages of the pipeline (stages A to E of the overview), then the
\* upload.
Stages == <<"pageviews", "sitelinks", "qviews", "qrank", "stats", "upload">>

\* The stage that follows stage number k, or "built" after the last one;
\* without a storage client there is no upload.
AfterStage(k, storage) ==
    IF k = Len(Stages) \/ (Stages[k + 1] = "upload" /\ ~storage) THEN "built"
    ELSE Stages[k + 1]

StageNo(name) == CHOOSE k \in 1..Len(Stages) : Stages[k] = name

cqKeep == UNCHANGED <<testRun, fl, util, up, pt, input, rd, ch, rg, sorter, outChan, errChan,
                      comb, w, bg, ctx, build, fs, faults, log>>

\* computeQRank is called and calls Build(dumpsPath, 52, storage).
ComputeCall ==
    /\ cq.pc = "idle"
    /\ \E storage \in BOOLEAN : cq' = [cq EXCEPT !.pc = "build", !.storage = storage]
    /\ UNCHANGED proc
    /\ cqKeep

\* computeQRank with the result of Build dropped.
ComputeReturnNil ==
    /\ cq.pc = "built"
    /\ cq' = [cq EXCEPT !.pc = "done", !.err = NoErr]
    /\ UNCHANGED proc
    /\ cqKeep

\* computeQRank returns what Build returned.
ComputeReturn ==
    /\ cq.pc = "built"
    /\ cq' = [cq EXCEPT !.pc = "done", !.err = cq.berr]
    /\ UNCHANGED proc
    /\ cqKeep

\* The pipeline starts with stage A: processPageviews for the epoch of the
\* entity dump.
PipelineStart ==
    /\ cq.pc = "build"
    /\ cq' = [cq EXCEPT !.pc = Stages[1], !.ran = <<Stages[1]>>]
    /\ \E date \in Epochs : proc' = [IdleProc EXCEPT !.pc = "loop", !.date = date]
    /\ cqKeep

\* Stage A has returned: its error ends the pipeline, else stage B starts.
PageviewsReturn ==
    /\ cq.pc = Stages[1]
    /\ proc.pc = "done"
    /\ cq' = IF proc.err # NoErr
             THEN [cq EXCEPT !.pc = "built", !.berr = proc.err, !.failed = Stages[1]]
             ELSE [cq EXCEPT !.pc = Stages[2], !.ran = Append(@, Stages[2])]
    /\ UNCHANGED proc
    /\ cqKeep

\* One of the later stages, or the upload, returns nil: the next one starts,
\* or the pipeline returns nil.
StageReturn ==
    /\ cq.pc \in {Stages[k] : k \in 2..Len(Stages)}
    /\ LET next == AfterStage(StageNo(cq.pc), cq.storage)
       IN  cq' = [cq EXCEPT !.pc = next,
                            !.ran = IF next = "built" THEN @ ELSE Append(@, next)]
    /\ UNCHANGED proc
    /\ cqKeep

\* One of the later stages, or the upload, returns an error: the pipeline
\* returns it.
StageFails ==
    /\ cq.pc \in {Stages[k] : k \in 2..Len(Stages)}
    /\ cq' = [cq EXCEPT !.pc = "built", !.berr = cq.pc, !.failed = cq.pc]
    /\ UNCHANGED proc
    /\ cqKeep

InitPipeline ==
    /\ testRun \in BOOLEAN
    /\ input = [d \in Days |-> <<>>]
    /\ fs = EmptyDir
    /\ proc = IdleProc
    /\ cq = IdleCq
    /\ fl = IdleFl
    /\ util = IdleUtil
    /\ up = IdleUp
    /\ pt = IdlePt
    /\ build = IdleBuild
    /\ rd = [d \in Days |-> IdleRd]
    /\ ch = NewChan
    /\ rg = NewRg
    /\ sorter = IdleSorter
    /\ outChan = NewChan
    /\ errChan = NewChan
    /\ comb = NewComb
    /\ w = <<>>
    /\ bg = NewBg
    /\ ctx = FALSE
    /\ faults = {}
    /\ log = NewLog

ComputeStep ==
    \/ ComputeCall
    \/ ComputeReturn
    \/ PipelineStart
    \/ PageviewsReturn
    \/ StageReturn
    \/ StageFails

NextPipeline ==
    \/ ComputeStep
    \/ ProcCall
    \/ ProcReturn
    \/ BuildStep
    \/ TaskStep
    \/ Cancel

SpecPipeline == InitPipeline /\ [][NextPipeline]_vars

\* The last stage that was started.
LastRan == cq.ran[Len(cq.ran)]

-----------------------------------------------------------------------------
(* SpecFormat: formatLine called on one input, then with another lang      *)

\* The langs of the switch (util.go:83-192).
SwitchLangs ==
    {S[l] : l \in {"", "az", "als", "bat_smg", "bat-smg", "be_x_old", "cbk_zam",
                   "cbk-zam", "commons", "fiu_vro", "fiu-vro", "incubator",
                   "map_bms", "map-bms", "media", "meta", "roa_rup", "roa-rup",
                   "roa_tara", "roa-tara", "simple", "sources", "species",
                   "nds_nl", "nds-nl", "tr", "zh_classical", "zh-classical",
                   "zh_min_nan", "zh-min-nan", "zh_yue", "zh-yue"}}

\* Langs the switch does not list: en, its upper case, and the upper case
\* of als.
OtherLangs == {B("en"), B("EN"), B("ALS")}

FormatLangs == SwitchLangs \cup OtherLangs

FormatSites == {B("wikipedia"), B("wikimedia")}

\* A language part of 19 bytes, of 20 bytes, and of 10 characters in 20 bytes.
Lang19 == B("abcdefghijklmnopqrs")
Lang20 == B("abcdefghijklmnopqrst")
Lang10Runes == Concat([i \in 1..10 |-> <<195, 169>>])

\* Titles: the incubator title of the test and variants of it (lower-case
\* wp, upper-case language, a space in the language part, language parts
\* around the length limit, two parts only), titles with a tab, a NUL, a
\* tab followed by a combining mark, a decomposed umlaut and a capital I.
FormatTitles ==
    {B("Wp/cpx/Teng-cing-ch") \o <<196, 171>>,
     B("wp/CPX/Main Page"),
     B("Wp/a b/c"),
     B("Wp/") \o Lang19 \o B("/x"),
     B("Wp/") \o Lang20 \o B("/x"),
     B("Wp/") \o Lang10Runes \o B("/x"),
     B("Wp/cpx"),
     B("Tab\tC"),
     B("Zero") \o <<0>> \o B("C"),
     <<9, 204, 136>> \o B("x"),
     B("Wa") \o <<204, 136>> \o B("he"),
     B("BAKI")}

FormatValues == {B("Q1"), <<>>}

flKeep == UNCHANGED <<testRun, util, up, pt, input, rd, ch, rg, sorter, outChan, errChan, comb,
                      w, bg, ctx, build, fs, faults, proc, cq, log>>

\* formatLine(lang, site, title, value) returns its line.
FormatCall ==
    /\ fl.pc = "call"
    /\ fl' = [fl EXCEPT !.pc = "done",
                        !.line = formatLine(fl.lang, fl.site, fl.title, fl.value)]
    /\ flKeep

\* formatLine is called again with another lang and the same site, title
\* and value; the lang and the line of the call before are kept.
FormatAgain ==
    /\ fl.pc = "done"
    /\ \E lang \in FormatLangs \ {fl.lang} :
          fl' = [fl EXCEPT !.pc = "call", !.lang = lang, !.line = <<>>,
                           !.prevLang = fl.lang, !.prevLine = fl.line]
    /\ flKeep

InitFormat ==
    /\ \E lang \in FormatLangs, site \in FormatSites,
          title \in FormatTitles, value \in FormatValues :
          fl = [IdleFl EXCEPT !.pc = "call", !.lang = lang, !.site = site,
                              !.title = title, !.value = value]
    /\ testRun = FALSE
    /\ input = [d \in Days |-> <<>>]
    /\ fs = EmptyDir
    /\ proc = IdleProc
    /\ cq = IdleCq
    /\ util = IdleUtil
    /\ up = IdleUp
    /\ pt = IdlePt
    /\ build = IdleBuild
    /\ rd = [d \in Days |-> IdleRd]
    /\ ch = NewChan
    /\ rg = NewRg
    /\ sorter = IdleSorter
    /\ outChan = NewChan
    /\ errChan = NewChan
    /\ comb = NewComb
    /\ w = <<>>
    /\ bg = NewBg
    /\ ctx = FALSE
    /\ faults = {}
    /\ log = NewLog

NextFormat == FormatCall \/ FormatAgain

SpecFormat == InitFormat /\ [][NextFormat]_vars

\* The alias table: the spellings of a lang and its canonical tag.
AliasTable ==
    {<<{S["bat_smg"], S["bat-smg"]}, S["sgs"]>>,
     <<{S["cbk_zam"], S["cbk-zam"]}, S["cbk-x-zam"]>>,
     <<{S["fiu_vro"], S["fiu-vro"]}, S["vro"]>>,
     <<{S["map_bms"], S["map-bms"]}, S["jv-x-bms"]>>,
     <<{S["nds_nl"], S["nds-nl"]}, S["nds-NL"]>>,
     <<{S["roa_rup"], S["roa-rup"]}, S["rup"]>>,
     <<{S["roa_tara"], S["roa-tara"]}, S["nap-x-tara"]>>,
     <<{S["zh_classical"], S["zh-classical"]}, S["lzh"]>>,
     <<{S["zh_min_nan"], S["zh-min-nan"]}, S["nan"]>>,
     <<{S["zh_yue"], S["zh-yue"]}, S["yue"]>>,
     <<{S["be_x_old"]}, S["be-tarask"]>>,
     <<{S["als"]}, S["gsw"]>>,
     <<{S["simple"]}, S["en-x-simple"]>>}

IsAlias(lang) == \E a \in AliasTable : lang \in a[1]

\* The canonical tag of a spelling of the table.
TagOf(lang) == (CHOOSE a \in AliasTable : lang \in a[1])[2]

HasPrefix(s, prefix) ==
    Len(s) >= Len(prefix) /\ SubSeq(s, 1, Len(prefix)) = prefix

\* C17: for every spelling of the alias table the line starts with the
\* canonical tag, followed by '.', the site and '/', and the underscore and
\* the hyphen spelling of a lang give the identical line for the same site,
\* title and value.
C17_AliasesCollapse ==
    (fl.pc = "done" /\ IsAlias(fl.lang)) =>
        /\ HasPrefix(fl.line, TagOf(fl.lang) \o <<46>> \o fl.site \o <<47>>)
        /\ (fl.prevLine # <<>> /\ IsAlias(fl.prevLang)
                /\ TagOf(fl.prevLang) = TagOf(fl.lang)) => fl.line = fl.prevLine

\* zh-min-nan has been formatted after zh_min_nan: both lines are the line
\* of nan.
C17_Witness ==
    /\ fl.pc = "done"
    /\ fl.lang = S["zh-min-nan"] /\ fl.prevLang = S["zh_min_nan"]
    /\ fl.line = B("nan.wikipedia/baki Q1")
    /\ fl.prevLine = fl.line

\* The title has the form Wp/<lang>/<rest> or wp/<lang>/<rest>.
IsIncubatorTitle(title) ==
    /\ Len(title) >= 3
    /\ SubSeq(title, 1, 3) \in {<<87, 112, 47>>, <<119, 112, 47>>}
    /\ IndexByte(SubSeq(title, 4, Len(title)), 47) >= 0

\* Its <lang> and its <rest>.
IncubatorLang(title) ==
    LET r == SubSeq(title, 4, Len(title)) IN Slice(r, 0, IndexByte(r, 47))

IncubatorRest(title) ==
    LET r == SubSeq(title, 4, Len(title))
    IN  Slice(r, IndexByte(r, 47) + 1, Len(r))

\* The line "<lang>.<site>/<normalised title> <value>".
LineOf(lang, site, title, value) ==
    lang \o <<46>> \o site \o <<47>> \o normTitle(title) \o <<32>> \o value

SiteWikipedia == B("wikipedia")

\* C18 as stated: for lang incubator and a title Wp/<lang>/<rest> whose
\* <lang> has fewer than 20 characters, the key is
\* <lang>.wikipedia/<normalised rest>, whatever the site.
C18_IncubatorToWikipedia ==
    (/\ fl.pc = "done" /\ fl.lang = S["incubator"]
     /\ IsIncubatorTitle(fl.title)
     /\ Len(Runes(IncubatorLang(fl.title))) < 20) =>
        fl.line = LineOf(ToLower(IncubatorLang(fl.title)), SiteWikipedia,
                         IncubatorRest(fl.title), fl.value)

\* C18 amended: for lang incubator and a title Wp/<lang>/<rest> or
\* wp/<lang>/<rest> whose <lang> has fewer than 20 bytes, the key is the
\* lower-cased <lang>, '.', the site that was passed in, '/', the normalised
\* rest; any other title of lang incubator keeps the lang incubator and the
\* whole title.
C18_IncubatorKeepsSite ==
    (fl.pc = "done" /\ fl.lang = S["incubator"]) =>
        IF IsIncubatorTitle(fl.title) /\ Len(IncubatorLang(fl.title)) < 20
        THEN fl.line = LineOf(ToLower(IncubatorLang(fl.title)), fl.site,
                              IncubatorRest(fl.title), fl.value)
        ELSE fl.line = LineOf(S["incubator"], fl.site, fl.title, fl.value)

\* The incubator title of the test has been formatted with the site
\* wikimedia: the key is cpx.wikimedia/teng-cing-chi (with a macron).
C18_Witness ==
    /\ fl.pc = "done" /\ fl.lang = S["incubator"]
    /\ fl.title = B("Wp/cpx/Teng-cing-ch") \o <<196, 171>>
    /\ fl.line = B("cpx.wikimedia/teng-cing-ch") \o <<196, 171>> \o B(" Q1")

\* C19 as stated: a lang the switch does not list is emitted lower-cased,
\* so two inputs that differ only in the letter case of such a lang give the
\* same line.
C19_UnknownLangLowered ==
    (fl.pc = "done" /\ fl.lang \notin SwitchLangs) =>
        /\ fl.line = LineOf(ToLower(fl.lang), fl.site, fl.title, fl.value)
        /\ (/\ fl.prevLang \notin SwitchLangs /\ fl.prevLine # <<>>
            /\ ToLower(fl.prevLang) = ToLower(fl.lang)) =>
                fl.line = fl.prevLine

\* C19 amended: a lang the switch does not list is emitted unchanged, byte
\* for byte, so two inputs that differ only in the letter case of such a
\* lang give different lines; the cases of the switch match the lower-case
\* spelling only.
C19_UnknownLangUnchanged ==
    (fl.pc = "done" /\ fl.lang \notin SwitchLangs) =>
        /\ fl.line = LineOf(fl.lang, fl.site, fl.title, fl.value)
        /\ (/\ fl.prevLang \notin SwitchLangs /\ fl.prevLine # <<>>
            /\ fl.prevLang # fl.lang) =>
                fl.line # fl.prevLine

\* formatLine was called with the lang en and then with EN: the lines are
\* en.wikipedia/baki Q1 and EN.wikipedia/baki Q1.
C19_Witness ==
    /\ fl.pc = "done"
    /\ fl.lang = B("EN") /\ fl.prevLang = B("en")
    /\ fl.line = B("EN.wikipedia/baki Q1")
    /\ fl.prevLine = B("en.wikipedia/baki Q1")

\* The number of bytes b of s.
CountByte(s, b) == Cardinality({i \in 1..Len(s) : s[i] = b})

\* s is not empty and has no byte <= 0x20.
IsToken(s) == s # <<>> /\ \A i \in 1..Len(s) : s[i] > 32

\* The title part of a line that ends in " <value>": what follows its
\* first '/'.
TitlePart(line, value) ==
    Slice(line, IndexByte(line, 47) + 1, Len(line) - Len(value) - 1)

\* C20 as stated, for a lang, site and value without white space: the title
\* part has no byte <= 0x20, so the line has exactly one ASCII space, the one
\* before the value, and does not end in white space.
C20_ExactlyOneSpace ==
    (/\ fl.pc = "done"
     /\ IsToken(fl.lang) /\ IsToken(fl.site) /\ IsToken(fl.value)) =>
        /\ \A i \in 1..Len(TitlePart(fl.line, fl.value)) :
               TitlePart(fl.line, fl.value)[i] > 32
        /\ CountByte(fl.line, 32) = 1
        /\ fl.line[Len(fl.line) - Len(fl.value)] = 32
        /\ fl.line[Len(fl.line)] > 32

\* What the code keeps: the line is the rewritten lang, '.', the rewritten
\* site, '/', the title part, ' ' and the value, and the title part has no
\* byte <= 0x20; lang, site and value are written as they are.
C20_TitlePartClean ==
    fl.pc = "done" =>
        LET r == langSwitch(fl.lang, fl.site, fl.title)
            t == TitlePart(fl.line, fl.value)
        IN  /\ fl.line = r.lang \o <<46>> \o r.site \o <<47>> \o t \o <<32>> \o fl.value
            /\ \A i \in 1..Len(t) : t[i] > 32
            /\ IndexByte(r.lang \o r.site, 47) < 0

\* formatLine("incubator", "wikimedia", "Wp/a b/c", "Q1") has returned
\* "a b.wikimedia/c Q1": two spaces, one of them in the key.
C20_Witness ==
    /\ fl.pc = "done"
    /\ fl.lang = S["incubator"] /\ fl.title = B("Wp/a b/c")
    /\ fl.line = B("a b.wikimedia/c Q1")

-----------------------------------------------------------------------------
(* SpecFormatRules: formatLine on the langs with a rule for the site or    *)
(* the title, and langs next to them                                       *)

\* The empty lang, the project pseudo-languages, az and tr, langs that start
\* with az or tr, and de.
RuleLangs ==
    {S[l] : l \in {"", "commons", "media", "meta", "sources", "species",
                   "az", "tr"}}
    \cup {B("azx"), B("trk"), B("de")}

\* The sites of the tests (util_test.go:125-130, 65-102).
RuleSites ==
    {S["wikidatawiki"], S["wikimaniawiki"], S["commons"], B("wikipedia"),
     B("wiki")}

\* "DİYARBAKIR" (util_test.go:105) and "Diyarbakır" (util_test.go:103).
TitleDIYARBAKIR == B("D") \o <<196, 176>> \o B("YARBAKIR")
TitleDiyarbakir == B("Diyarbak") \o <<196, 177>> \o B("r")

RuleTitles == {B("BAKI"), TitleDIYARBAKIR, TitleDiyarbakir}

\* formatLine is called again with another lang of RuleLangs.
FormatOther ==
    /\ fl.pc = "done"
    /\ \E lang \in RuleLangs \ {fl.lang} :
          fl' = [fl EXCEPT !.pc = "call", !.lang = lang, !.line = <<>>,
                           !.prevLang = fl.lang, !.prevLine = fl.line]
    /\ flKeep

InitFormatRules ==
    /\ \E lang \in RuleLangs, site \in RuleSites, title \in RuleTitles :
          fl = [IdleFl EXCEPT !.pc = "call", !.lang = lang, !.site = site,
                              !.title = title, !.value = B("Q1")]
    /\ testRun = FALSE
    /\ input = [d \in Days |-> <<>>]
    /\ fs = EmptyDir
    /\ proc = IdleProc
    /\ cq = IdleCq
    /\ util = IdleUtil
    /\ up = IdleUp
    /\ pt = IdlePt
    /\ build = IdleBuild
    /\ rd = [d \in Days |-> IdleRd]
    /\ ch = NewChan
    /\ rg = NewRg
    /\ sorter = IdleSorter
    /\ outChan = NewChan
    /\ errChan = NewChan
    /\ comb = NewComb
    /\ w = <<>>
    /\ bg = NewBg
    /\ ctx = FALSE
    /\ faults = {}
    /\ log = NewLog

NextFormatRules == FormatCall \/ FormatOther

SpecFormatRules == InitFormatRules /\ [][NextFormatRules]_vars

Und_wikidata == B("und.wikidata/")
Und_wikimania == B("und.wikimania/")

\* C21: for the empty lang the line starts with "und.", then wikidata for the
\* site wikidatawiki, wikimania for wikimaniawiki and the site itself
\* otherwise, then '/'.
C21_EmptyLangIsUnd ==
    (fl.pc = "done" /\ fl.lang = <<>>) =>
        /\ HasPrefix(fl.line, <<117, 110, 100, 46>>)
        /\ fl.site = S["wikidatawiki"] =>
               HasPrefix(fl.line, Und_wikidata)
        /\ fl.site = S["wikimaniawiki"] =>
               HasPrefix(fl.line, Und_wikimania)
        /\ fl.site \notin {S["wikidatawiki"], S["wikimaniawiki"]} =>
               HasPrefix(fl.line, <<117, 110, 100, 46>> \o fl.site \o <<47>>)

\* formatLine("", "wikimaniawiki", "BAKI", "Q1") has returned
\* "und.wikimania/baki Q1".
C21_Witness ==
    /\ fl.pc = "done" /\ fl.lang = <<>> /\ fl.site = S["wikimaniawiki"]
    /\ fl.line = B("und.wikimania/baki Q1")

\* The project pseudo-languages and the start of their lines.
ProjectTable ==
    {<<S["commons"], B("und.commons/")>>,
     <<S["media"], B("und.mediawiki/")>>,
     <<S["meta"], B("und.metawiki/")>>,
     <<S["sources"], B("und.wikisource/")>>,
     <<S["species"], B("und.wikispecies/")>>}

\* C22: for commons, media, meta, sources and species the line is "und.",
\* the fixed site, '/', the normalised title, ' ' and the value, whatever
\* site was passed in.
C22_ProjectsAreUnd ==
    fl.pc = "done" =>
        \A row \in ProjectTable :
            fl.lang = row[1] =>
                fl.line = row[2] \o normTitle(fl.title) \o <<32>> \o fl.value

\* formatLine("species", "wiki", "BAKI", "Q1") has returned
\* "und.wikispecies/baki Q1".
C22_Witness ==
    /\ fl.pc = "done" /\ fl.lang = S["species"] /\ fl.site = B("wiki")
    /\ fl.line = B("und.wikispecies/baki Q1")

\* Titles, their lower case under the dotted/dotless-I rules, and their
\* default case folding (U+0130 folds to 'i' and U+0307).
CaseTable ==
    {<<B("BAKI"), B("bak") \o <<196, 177>>, B("baki")>>,
     <<TitleDIYARBAKIR, B("diyarbak") \o <<196, 177>> \o B("r"),
       B("di") \o <<204, 135>> \o B("yarbakir")>>,
     <<TitleDiyarbakir, B("diyarbak") \o <<196, 177>> \o B("r"),
       B("diyarbak") \o <<196, 177>> \o B("r")>>}

\* C23: the title part is the lower case under the dotted/dotless-I rules for
\* the langs az and tr, and the default case folding for every other lang,
\* langs that start with az or tr included.
C23_TurkicLowerCase ==
    fl.pc = "done" =>
        \A row \in CaseTable :
            fl.title = row[1] =>
                TitlePart(fl.line, fl.value) =
                    IF fl.lang \in {S["az"], S["tr"]} THEN row[2] ELSE row[3]

\* formatLine was called with "BAKI" for the lang azx and then for az: the
\* lines are azx.wikipedia/baki Q1 and az.wikipedia/bak\u0131 Q1.
C23_Witness ==
    /\ fl.pc = "done" /\ fl.lang = S["az"] /\ fl.prevLang = B("azx")
    /\ fl.prevLine = B("azx.wikipedia/baki Q1")
    /\ fl.line = B("az.wikipedia/bak") \o <<196, 177>> \o B(" Q1")

-----------------------------------------------------------------------------
(* unquote, unquoteBytes, getu4 (util.go)                                  *)

\* The value of a hexadecimal digit as getu4 reads it, or -1.
HexDigit(c) ==
    IF 48 <= c /\ c <= 57 THEN c - 48
    ELSE IF 97 <= c /\ c <= 102 THEN c - 97 + 10
    ELSE IF 65 <= c /\ c <= 70 THEN c - 65 + 10
    ELSE -1

\* getu4 reading the digits 'a'..'f' only in lower case.
getu4LowerHex(s) ==
    IF Len(s) < 6 \/ s[1] # 92 \/ s[2] # 117 THEN -1
    ELSE IF \E i \in 3..6 : HexDigit(s[i]) < 0 \/ (65 <= s[i] /\ s[i] <= 70) THEN -1
    ELSE ((HexDigit(s[3]) * 16 + HexDigit(s[4])) * 16 + HexDigit(s[5])) * 16
         + HexDigit(s[6])

\* getu4 (util.go:217-239): the value of \uXXXX at the start of s, or -1.
getu4(s) ==
    IF Len(s) < 6 \/ s[1] # 92 \/ s[2] # 117 THEN -1
    ELSE IF \E i \in 3..6 : HexDigit(s[i]) < 0 THEN -1
    ELSE ((HexDigit(s[3]) * 16 + HexDigit(s[4])) * 16 + HexDigit(s[5])) * 16
         + HexDigit(s[6])

\* utf16.IsSurrogate.
IsSurrogate(r) == 55296 <= r /\ r < 57344

\* unicode.ReplacementChar.
ReplacementChar == 65533

\* utf16.DecodeRune.
utf16DecodeRune(r1, r2) ==
    IF 55296 <= r1 /\ r1 < 56320 /\ 56320 <= r2 /\ r2 < 57344
    THEN (r1 - 55296) * 1024 + (r2 - 56320) + 65536
    ELSE ReplacementChar

\* The first loop of unquoteBytes (util.go:264-279): the index r at which
\* it stops.
RECURSIVE ScanPlain(_, _)
ScanPlain(s, r) ==
    IF r >= Len(s) THEN r
    ELSE LET c == s[r + 1] IN
         IF c = 92 \/ c = 34 \/ c < 32 THEN r
         ELSE IF c < 128 THEN ScanPlain(s, r + 1)
         ELSE IF RuneLen(s, r + 1) = 0 THEN r
         ELSE ScanPlain(s, r + RuneLen(s, r + 1))

\* The zero results of an early `return`.
UnquoteFail == [t |-> <<>>, ok |-> FALSE]

\* The second loop of unquoteBytes (util.go:283-347) from index r with the
\* bytes b written so far.
RECURSIVE UnquoteFrom(_, _, _)
UnquoteFrom(s, r, b) ==
    IF r >= Len(s) THEN [t |-> b, ok |-> TRUE]
    ELSE LET c == s[r + 1] IN
         IF c = 92 THEN
             IF r + 1 >= Len(s) THEN UnquoteFail
             ELSE LET e == s[r + 2] IN
                  IF e \in {34, 92, 47, 39} THEN UnquoteFrom(s, r + 2, Append(b, e))
                  ELSE IF e = 98 THEN UnquoteFrom(s, r + 2, Append(b, 8))
                  ELSE IF e = 102 THEN UnquoteFrom(s, r + 2, Append(b, 12))
                  ELSE IF e = 110 THEN UnquoteFrom(s, r + 2, Append(b, 10))
                  ELSE IF e = 114 THEN UnquoteFrom(s, r + 2, Append(b, 13))
                  ELSE IF e = 116 THEN UnquoteFrom(s, r + 2, Append(b, 9))
                  ELSE IF e = 117 THEN
                      LET rr == getu4(Slice(s, r, Len(s))) IN
                      IF rr < 0 THEN UnquoteFail
                      ELSE IF IsSurrogate(rr) THEN
                          LET rr1 == getu4(Slice(s, r + 6, Len(s)))
                              dec == utf16DecodeRune(rr, rr1)
                          IN  IF dec # ReplacementChar
                              THEN UnquoteFrom(s, r + 12, b \o EncodeRune(dec))
                              ELSE UnquoteFrom(s, r + 6,
                                               b \o EncodeRune(ReplacementChar))
                      ELSE UnquoteFrom(s, r + 6, b \o EncodeRune(rr))
                  ELSE UnquoteFail
         ELSE IF c = 34 \/ c < 32 THEN UnquoteFail
         ELSE IF c < 128 THEN UnquoteFrom(s, r + 1, Append(b, c))
         ELSE LET n == RuneLen(s, r + 1) IN
              IF n = 0
              THEN UnquoteFrom(s, r + 1, b \o EncodeRune(ReplacementChar))
              ELSE UnquoteFrom(s, r + n, b \o EncodeRune(RuneAt(s, r + 1, n)))

\* unquoteBytes dropping the first and the last byte without looking at them.
unquoteBytesUnchecked(s) ==
    IF Len(s) < 2 THEN UnquoteFail
    ELSE LET in == SubSeq(s, 2, Len(s) - 1)
             r == ScanPlain(in, 0)
         IN  IF r = Len(in) THEN [t |-> in, ok |-> TRUE]
             ELSE UnquoteFrom(in, r, SubSeq(in, 1, r))

\* unquoteBytes (util.go:252-349).
unquoteBytes(s) ==
    IF Len(s) < 2 \/ s[1] # 34 \/ s[Len(s)] # 34 THEN UnquoteFail
    ELSE LET in == SubSeq(s, 2, Len(s) - 1)
             r == ScanPlain(in, 0)
         IN  IF r = Len(in) THEN [t |-> in, ok |-> TRUE]
             ELSE UnquoteFrom(in, r, SubSeq(in, 1, r))

\* unquote (util.go:243-250): t = string(s) keeps the bytes.
unquote(s) == unquoteBytes(s)

-----------------------------------------------------------------------------
(* SpecUnquote: unquote called on one literal                              *)

\* Model bound: the number of pieces between the quotes of a literal.
MaxPieces == 2

\* The pieces literals are made of: the text of the piece, its kind and the
\* code point it stands for.  Kind "plain" is text without escapes, "esc" an
\* escape of one code point, "hi" and "lo" the \u escape of a high and of a
\* low surrogate, "bad" text that is not allowed in a JSON string.
UnquotePieces ==
    << [lit |-> B("a"), kind |-> "plain", cp |-> 97],
       [lit |-> B("'"), kind |-> "plain", cp |-> 39],
       [lit |-> <<195, 169>>, kind |-> "plain", cp |-> 233],
       [lit |-> <<92, 92>>, kind |-> "esc", cp |-> 92],
       [lit |-> <<92, 47>>, kind |-> "esc", cp |-> 47],
       [lit |-> <<92, 34>>, kind |-> "esc", cp |-> 34],
       [lit |-> <<92>> \o B("b"), kind |-> "esc", cp |-> 8],
       [lit |-> <<92>> \o B("f"), kind |-> "esc", cp |-> 12],
       [lit |-> <<92>> \o B("n"), kind |-> "esc", cp |-> 10],
       [lit |-> <<92>> \o B("r"), kind |-> "esc", cp |-> 13],
       [lit |-> <<92>> \o B("t"), kind |-> "esc", cp |-> 9],
       [lit |-> <<92>> \o B("u00e9"), kind |-> "esc", cp |-> 233],
       [lit |-> <<92>> \o B("u00C4"), kind |-> "esc", cp |-> 196],
       [lit |-> <<92>> \o B("uc11c"), kind |-> "esc", cp |-> 49436],
       [lit |-> <<92>> \o B("ud83d"), kind |-> "hi", cp |-> 55357],
       [lit |-> <<92>> \o B("ude00"), kind |-> "lo", cp |-> 56832],
       [lit |-> <<34>>, kind |-> "bad", cp |-> 34],
       [lit |-> <<9>>, kind |-> "bad", cp |-> 9],
       [lit |-> <<92>> \o B("x"), kind |-> "bad", cp |-> 0],
       [lit |-> <<92>> \o B("u12"), kind |-> "bad", cp |-> 0] >>

\* The literals: a quote, up to MaxPieces pieces, a quote.
PieceLists ==
    UNION {[1..n -> 1..Len(UnquotePieces)] : n \in 0..MaxPieces}

Literal(ps) ==
    <<34>> \o Concat([i \in 1..Len(ps) |-> UnquotePieces[ps[i]].lit]) \o <<34>>

utilKeep == UNCHANGED <<testRun, fl, up, pt, input, rd, ch, rg, sorter, outChan,
                        errChan, comb, w, bg, ctx, build, fs, faults, proc, cq,
                        log>>

\* unquote(s) returns (t, ok).
UnquoteCall ==
    /\ util.pc = "call"
    /\ util' = [util EXCEPT !.pc = "done",
                            !.t = unquote(util.s).t, !.ok = unquote(util.s).ok]
    /\ utilKeep

\* unquote is called again, on the literal with one more piece.
UnquoteLonger ==
    /\ util.pc = "done"
    /\ Len(util.pieces) < MaxPieces
    /\ \E p \in 1..Len(UnquotePieces) :
          util' = [pc |-> "call", pieces |-> Append(util.pieces, p),
                   s |-> Literal(Append(util.pieces, p)), t |-> <<>>,
                   ok |-> FALSE]
    /\ utilKeep

InitUnquote ==
    /\ \E ps \in PieceLists :
          util = [pc |-> "call", pieces |-> ps, s |-> Literal(ps), t |-> <<>>,
                  ok |-> FALSE]
    /\ up = IdleUp
    /\ pt = IdlePt
    /\ fl = IdleFl
    /\ testRun = FALSE
    /\ input = [d \in Days |-> <<>>]
    /\ fs = EmptyDir
    /\ proc = IdleProc
    /\ cq = IdleCq
    /\ build = IdleBuild
    /\ rd = [d \in Days |-> IdleRd]
    /\ ch = NewChan
    /\ rg = NewRg
    /\ sorter = IdleSorter
    /\ outChan = NewChan
    /\ errChan = NewChan
    /\ comb = NewComb
    /\ w = <<>>
    /\ bg = NewBg
    /\ ctx = FALSE
    /\ faults = {}
    /\ log = NewLog

NextUnquote == UnquoteCall \/ UnquoteLonger

SpecUnquote == InitUnquote /\ [][NextUnquote]_vars

\* The literal is well formed: no text that JSON does not allow, and every
\* surrogate escape is half of a pair, high then low.
WellFormedPieces(ps) ==
    \A i \in 1..Len(ps) :
        LET k == UnquotePieces[ps[i]].kind IN
        /\ k # "bad"
        /\ k = "hi" => (i < Len(ps) /\ UnquotePieces[ps[i + 1]].kind = "lo")
        /\ k = "lo" => (i > 1 /\ UnquotePieces[ps[i - 1]].kind = "hi")

\* The code points the pieces from i on stand for, a pair of surrogate
\* escapes standing for one.
RECURSIVE DecodedFrom(_, _)
DecodedFrom(ps, i) ==
    IF i > Len(ps) THEN <<>>
    ELSE LET p == UnquotePieces[ps[i]] IN
         IF p.kind = "hi"
         THEN <<65536 + (p.cp - 55296) * 1024 + (UnquotePieces[ps[i + 1]].cp - 56320)>>
              \o DecodedFrom(ps, i + 2)
         ELSE <<p.cp>> \o DecodedFrom(ps, i + 1)

\* C24: for a well-formed literal unquote returns ok = true and the text of
\* the code points its pieces stand for (each escape its character, a
\* surrogate pair one code point), and for a literal without escapes the
\* bytes between the quotes.
C24_UnquoteDecodes ==
    (util.pc = "done" /\ WellFormedPieces(util.pieces)) =>
        /\ util.ok
        /\ Runes(util.t) = DecodedFrom(util.pieces, 1)
        /\ ValidString(util.t)
        /\ (\A i \in 1..Len(util.pieces) :
                UnquotePieces[util.pieces[i]].kind = "plain") =>
               util.t = SubSeq(util.s, 2, Len(util.s) - 1)

\* unquote has decoded the literal of the pair \ud83d \ude00 to
\* the four bytes of U+1F600.
C24_Witness ==
    /\ util.pc = "done" /\ util.ok
    /\ util.s = <<34, 92>> \o B("ud83d") \o <<92>> \o B("ude00") \o <<34>>
    /\ util.t = <<240, 159, 152, 128>>

-----------------------------------------------------------------------------
(* ISOWeekStart (util.go) and the time.Time methods it calls               *)

\* A time.Time at 00:00 UTC is the number of its day, day 0 being
\* 0001-01-01, a Monday.
DaysBeforeYear(y) ==
    365 * (y - 1) + ((y - 1) \div 4) - ((y - 1) \div 100) + ((y - 1) \div 400)

RECURSIVE DaysBeforeMonth(_, _)
DaysBeforeMonth(y, m) ==
    IF m = 1 THEN 0 ELSE DaysBeforeMonth(y, m - 1) + DaysIn(y, m - 1)

\* time.Date(y, m, d, 0, 0, 0, 0, time.UTC) for a day that exists.
Date(y, m, d) == DaysBeforeYear(y) + DaysBeforeMonth(y, m) + (d - 1)

\* t.Year() and t.YearDay() - 1.
YearOf(t) ==
    CHOOSE y \in ((t \div 366) - 1)..((t \div 365) + 1) :
        DaysBeforeYear(y) <= t /\ t < DaysBeforeYear(y + 1)

YearDay0(t) == t - DaysBeforeYear(YearOf(t))

\* t.Date() as a record.
CivilOf(t) ==
    LET y == YearOf(t)
        m == CHOOSE k \in 1..12 :
                 /\ DaysBeforeMonth(y, k) <= YearDay0(t)
                 /\ YearDay0(t) < DaysBeforeMonth(y, k) + DaysIn(y, k)
    IN  [y |-> y, m |-> m, d |-> YearDay0(t) - DaysBeforeMonth(y, m) + 1]

\* t.Weekday(): Sunday = 0, Monday = 1, ..., Saturday = 6.
Weekday(t) == (t + 1) % 7

\* t.AddDate(0, 0, days).
AddDays(t, days) == t + days

\* t.ISOWeek(): the year of the Thursday of t's week, and the number of that
\* Thursday's week of the year.
ISOWeek(t) ==
    LET d0 == 4 - Weekday(t)
        d == IF d0 = 4 THEN -3 ELSE d0
        thu == t + d
    IN  [year |-> YearOf(thu), week |-> (YearDay0(thu) \div 7) + 1]

\* ISOWeekStart starting from January 1 in place of July 1.
ISOWeekStartJanuary(year, week) ==
    LET t0 == Date(year, 1, 1)
        wd == Weekday(t0)
        t == IF wd = 0 THEN AddDays(t0, -6) ELSE AddDays(t0, 1 - wd)
        isoWeek == ISOWeek(t).week
    IN  AddDays(t, (week - isoWeek) * 7)

\* ISOWeekStart (util.go:383-397).
ISOWeekStart(year, week) ==
    LET t0 == Date(year, 7, 1)
        wd == Weekday(t0)
        t == IF wd = 0 THEN AddDays(t0, -6) ELSE AddDays(t0, 1 - wd)
        isoWeek == ISOWeek(t).week
    IN  AddDays(t, (week - isoWeek) * 7)

-----------------------------------------------------------------------------
(* SpecWeekStart: ISOWeekStart called for a week, then for the next week   *)

\* Model bounds: the years, and the weeks -MaxWeek .. MaxWeek.
FirstYear == 2015
LastYear == 2026
MaxWeek == 55

WeekYears == FirstYear..LastYear
Weeks == (0 - MaxWeek)..MaxWeek

\* ISOWeekStart(year, week) returns.
WeekStartCall ==
    /\ util.pc = "call"
    /\ util' = [util EXCEPT !.pc = "done",
                            !.t = ISOWeekStart(util.year, util.week)]
    /\ utilKeep

\* ISOWeekStart is called again for the week after; the result of the call
\* before is kept.
WeekStartNext ==
    /\ util.pc = "done"
    /\ util.week < MaxWeek
    /\ util' = [util EXCEPT !.pc = "call", !.week = util.week + 1,
                            !.t = 0, !.prev = <<util.t>>]
    /\ utilKeep

InitWeekStart ==
    /\ \E year \in WeekYears, week \in Weeks :
          util = [pc |-> "call", year |-> year, week |-> week, t |-> 0,
                  prev |-> <<>>]
    /\ up = IdleUp
    /\ pt = IdlePt
    /\ fl = IdleFl
    /\ testRun = FALSE
    /\ input = [d \in Days |-> <<>>]
    /\ fs = EmptyDir
    /\ proc = IdleProc
    /\ cq = IdleCq
    /\ build = IdleBuild
    /\ rd = [d \in Days |-> IdleRd]
    /\ ch = NewChan
    /\ rg = NewRg
    /\ sorter = IdleSorter
    /\ outChan = NewChan
    /\ errChan = NewChan
    /\ comb = NewComb
    /\ w = <<>>
    /\ bg = NewBg
    /\ ctx = FALSE
    /\ faults = {}
    /\ log = NewLog

NextWeekStart == WeekStartCall \/ WeekStartNext

SpecWeekStart == InitWeekStart /\ [][NextWeekStart]_vars

\* The number of ISO weeks of a year: 53 when January 1 is a Thursday, or a
\* Wednesday in a leap year, else 52.
WeeksOfYear(y) ==
    LET jan1 == Weekday(Date(y, 1, 1))
    IN  IF jan1 = 4 \/ (jan1 = 3 /\ IsLeap(y)) THEN 53 ELSE 52

\* The Monday of ISO week 1 of a year: the Monday of the week of January 4.
FirstMonday(y) ==
    CHOOSE t \in (Date(y, 1, 4) - 6)..Date(y, 1, 4) : Weekday(t) = 1

\* C25: ISOWeekStart returns a Monday; for a valid ISO week of the year the
\* ISO year and week of the returned date are the arguments; and the result
\* for week + 1 is 7 days after the result for week, for every week.
C25_WeekStartInverse ==
    util.pc = "done" =>
        /\ Weekday(util.t) = 1
        /\ (1 <= util.week /\ util.week <= WeeksOfYear(util.year)) =>
               /\ ISOWeek(util.t) = [year |-> util.year, week |-> util.week]
               /\ util.t = FirstMonday(util.year) + 7 * (util.week - 1)
        /\ util.prev # <<>> => util.t = util.prev[1] + 7

\* ISOWeekStart(2019, 0) returned 2018-12-24 and then ISOWeekStart(2019, 1)
\* returned 2018-12-31.
C25_Witness ==
    /\ util.pc = "done" /\ util.year = 2019 /\ util.week = 1
    /\ util.prev # <<>>
    /\ CivilOf(util.prev[1]) = [y |-> 2018, m |-> 12, d |-> 24]
    /\ CivilOf(util.t) = [y |-> 2018, m |-> 12, d |-> 31]

-----------------------------------------------------------------------------
(* ParseISOWeek (util.go)                                                  *)

\* isoWeekRegexp, `(\d{4})-W(\d{2})`, matches s at the 0-based index i.
MatchesAt(s, i) ==
    /\ i + 8 <= Len(s)
    /\ \A k \in 1..4 : IsDigit(s[i + k])
    /\ s[i + 5] = 45
    /\ s[i + 6] = 87
    /\ \A k \in 7..8 : IsDigit(s[i + k])

\* isoWeekRegexp.FindStringSubmatch(s): the index of the leftmost match,
\* or -1 for a nil match.
FindMatch(s) ==
    IF \E i \in 0..Len(s) : MatchesAt(s, i)
    THEN CHOOSE i \in 0..Len(s) :
             MatchesAt(s, i) /\ \A j \in 0..(i - 1) : ~MatchesAt(s, j)
    ELSE -1

\* strconv.Atoi of a run of decimal digits.
Atoi(ds) == DigitsVal(ds, 0)

\* ParseISOWeek (util.go:369-381).
ParseISOWeek(s) ==
    LET i == FindMatch(s) IN
    IF i < 0 THEN [year |-> 0, week |-> 0, err |-> "week not in ISO 8601 format"]
    ELSE [year |-> Atoi(Slice(s, i, i + 4)),
          week |-> Atoi(Slice(s, i + 6, i + 8)), err |-> NoErr]

-----------------------------------------------------------------------------
(* SpecParseWeek: ParseISOWeek called on one string                        *)

\* The strings: what may stand before, the middle, what may stand after.
WeekPrefixes == {<<>>, B("x"), B("1"), B(" ")}
WeekCores ==
    {B("2023-W07"), B("2018-W51"), B("2023-12-24"), B("2023-W7"),
     B("2023-w07"), B("2023W07"), B("23-W07"), B("2023-W99"), <<>>}
WeekSuffixes == {<<>>, B("1"), B("x"), <<10>>}

\* ParseISOWeek(s) returns.
ParseWeekCall ==
    /\ util.pc = "call"
    /\ util' = [util EXCEPT !.pc = "done", !.res = ParseISOWeek(util.s)]
    /\ utilKeep

InitParseWeek ==
    /\ \E p \in WeekPrefixes, c \in WeekCores, x \in WeekSuffixes :
          util = [pc |-> "call", s |-> p \o c \o x,
                  res |-> [year |-> 0, week |-> 0, err |-> NoErr]]
    /\ up = IdleUp
    /\ pt = IdlePt
    /\ fl = IdleFl
    /\ testRun = FALSE
    /\ input = [d \in Days |-> <<>>]
    /\ fs = EmptyDir
    /\ proc = IdleProc
    /\ cq = IdleCq
    /\ build = IdleBuild
    /\ rd = [d \in Days |-> IdleRd]
    /\ ch = NewChan
    /\ rg = NewRg
    /\ sorter = IdleSorter
    /\ outChan = NewChan
    /\ errChan = NewChan
    /\ comb = NewComb
    /\ w = <<>>
    /\ bg = NewBg
    /\ ctx = FALSE
    /\ faults = {}
    /\ log = NewLog

NextParseWeek == ParseWeekCall

SpecParseWeek == InitParseWeek /\ [][NextParseWeek]_vars

\* s has the format YYYY-Www: four digits, "-W", two digits, nothing else.
IsWeekFormat(s) ==
    /\ Len(s) = 8
    /\ \A k \in {1, 2, 3, 4, 7, 8} : 48 <= s[k] /\ s[k] <= 57
    /\ s[5] = 45 /\ s[6] = 87

\* The number a string of digits writes.
RECURSIVE NumberOf(_)
NumberOf(ds) ==
    IF ds = <<>> THEN 0
    ELSE NumberOf(SubSeq(ds, 1, Len(ds) - 1)) * 10 + (ds[Len(ds)] - 48)

\* C26 as stated: ParseISOWeek returns the year, the week and a nil error for
\* a string of the format YYYY-Www, and an error for every other string.
C26_ErrorUnlessWeekFormat ==
    util.pc = "done" =>
        IF IsWeekFormat(util.s)
        THEN util.res = [year |-> NumberOf(SubSeq(util.s, 1, 4)),
                         week |-> NumberOf(SubSeq(util.s, 7, 8)), err |-> NoErr]
        ELSE util.res.err # NoErr

\* What the code does: it returns the year and week of a string of the
\* format, and an error exactly for a string no part of which has the format;
\* otherwise the year and week of the first such part.
C26_ParsesFirstMatch ==
    util.pc = "done" =>
        /\ IsWeekFormat(util.s) =>
               util.res = [year |-> NumberOf(SubSeq(util.s, 1, 4)),
                           week |-> NumberOf(SubSeq(util.s, 7, 8)), err |-> NoErr]
        /\ util.res.err # NoErr <=>
               ~ \E i \in 1..Len(util.s) : \E j \in i..Len(util.s) :
                     IsWeekFormat(SubSeq(util.s, i, j))
        /\ util.res.err # NoErr => (util.res.year = 0 /\ util.res.week = 0)

\* ParseISOWeek("2023-W071") has returned (2023, 7, nil).
C26_Witness ==
    /\ util.pc = "done"
    /\ util.s = B("2023-W071")
    /\ util.res = [year |-> 2023, week |-> 7, err |-> NoErr]

-----------------------------------------------------------------------------
(* LatestDump (util.go)                                                    *)

\* fs.ErrNotExist.
ErrNotExist == "file does not exist"

\* filepath.Join of a directory and a name.
Join(dir, name) == dir \o <<47>> \o name

\* reYear, `^\d{4}$`, and reMonth, `^\d{4}-\d{2}$`.
IsYearName(n) == Len(n) = 4 /\ \A k \in 1..4 : IsDigit(n[k])

IsMonthName(n) ==
    /\ Len(n) = 7
    /\ \A k \in {1, 2, 3, 4, 6, 7} : IsDigit(n[k])
    /\ n[5] = 45

\* The pattern of the test, `^pageviews-(\d{8})-user\.bz2$`.
DumpPrefix == B("pageviews-")
DumpSuffix == B("-user.bz2")

MatchesDump(n) ==
    /\ Len(n) = Len(DumpPrefix) + 8 + Len(DumpSuffix)
    /\ SubSeq(n, 1, Len(DumpPrefix)) = DumpPrefix
    /\ \A k \in 1..8 : IsDigit(n[Len(DumpPrefix) + k])
    /\ SubSeq(n, Len(DumpPrefix) + 9, Len(n)) = DumpSuffix

\* sort.Slice with `a >= b` on names that differ: the names in descending
\* order.
RECURSIVE SortDesc(_)
SortDesc(names) ==
    IF names = {} THEN <<>>
    ELSE LET top == CHOOSE x \in names : \A y \in names : ~Less(x, y)
         IN  <<top>> \o SortDesc(names \ {top})

\* The months of a year directory from index j on, with the matching files
\* collected so far (util.go:57-72).
RECURSIVE ScanMonths(_, _, _, _, _)
ScanMonths(tree, yearDir, months, j, files) ==
    IF j > Len(months) THEN [found |-> FALSE, path |-> <<>>, err |-> NoErr]
    ELSE LET monthDir == Join(yearDir, months[j]) IN
         IF monthDir \notin DOMAIN tree
         THEN [found |-> TRUE, path |-> <<>>, err |-> ErrNotExist]
         ELSE LET all == files \cup {n \in tree[monthDir] : MatchesDump(n)} IN
              IF all # {}
              THEN [found |-> TRUE, path |-> Join(monthDir, SortDesc(all)[1]),
                    err |-> NoErr]
              ELSE ScanMonths(tree, yearDir, months, j + 1, all)

\* The path of the final return.
Todo == B("todo")

\* The year directories from index i on (util.go:41-73), and the final
\* return.
RECURSIVE ScanYears(_, _, _, _)
ScanYears(tree, dir, years, i) ==
    IF i > Len(years) THEN [path |-> Todo, err |-> ErrNotExist]
    ELSE LET yearDir == Join(dir, years[i]) IN
         IF yearDir \notin DOMAIN tree THEN [path |-> <<>>, err |-> ErrNotExist]
         ELSE LET months == SortDesc({n \in tree[yearDir] : IsMonthName(n)})
                  r == ScanMonths(tree, yearDir, months, 1, {})
              IN  IF r.found THEN [path |-> r.path, err |-> r.err]
                  ELSE ScanYears(tree, dir, years, i + 1)

\* LatestDump with the years in ascending order.
LatestDumpOldestYear(tree, dir) ==
    IF dir \notin DOMAIN tree THEN [path |-> <<>>, err |-> ErrNotExist]
    ELSE LET desc == SortDesc({n \in tree[dir] : IsYearName(n)})
             years == [i \in 1..Len(desc) |-> desc[Len(desc) + 1 - i]]
         IN  ScanYears(tree, dir, years, 1)

\* LatestDump (util.go:24-75) on a directory tree: tree[d] is what
\* os.ReadDir(d) lists, and a d outside its domain does not exist.
LatestDump(tree, dir) ==
    IF dir \notin DOMAIN tree THEN [path |-> <<>>, err |-> ErrNotExist]
    ELSE LET years == SortDesc({n \in tree[dir] : IsYearName(n)})
         IN  ScanYears(tree, dir, years, 1)

-----------------------------------------------------------------------------
(* SpecLatestDump: LatestDump called on one directory tree                 *)

\* The tree of the test (util_test.go:15-43): year and month directories,
\* dump files, a file the pattern does not match, and a directory that is
\* not a year.
DumpDir == B("pageview_complete")
DumpYears == {B("2022"), B("2023")}
DumpMonths == {B("-02"), B("-03")}
DumpFiles ==
    {B("pageviews-20230319-user.bz2"), B("pageviews-20230326-user.bz2"),
     B("pageviews-20230327-user.bz2.tmp")}
NotAYear == B("latest")

NoSuchDir == B("no_such_dir")

\* The tree with the years ys, the months ms[y] of year y and the files
\* fsel[<<y, m>>] in month m of year y.
DumpTree(ys, ms, fsel) ==
    LET top == [d \in {DumpDir} |-> ys \cup {NotAYear}]
        other == [d \in {Join(DumpDir, NotAYear)} |-> DumpFiles]
        yearDirs == [y \in ys |-> Join(DumpDir, y)]
        years == [d \in {yearDirs[y] : y \in ys} |->
                     LET y == CHOOSE y \in ys : yearDirs[y] = d
                     IN  {y \o m : m \in ms[y]} \cup {NotAYear}]
        monthDirs == [ym \in DOMAIN fsel |->
                         Join(yearDirs[ym[1]], ym[1] \o ym[2])]
        months == [d \in {monthDirs[ym] : ym \in DOMAIN fsel} |->
                      fsel[CHOOSE ym \in DOMAIN fsel : monthDirs[ym] = d]]
    IN  top @@ other @@ years @@ months

\* LatestDump(dir, re) returns.
LatestDumpCall ==
    /\ util.pc = "call"
    /\ util' = [util EXCEPT !.pc = "done",
                            !.res = LatestDump(util.tree, util.dir)]
    /\ utilKeep

InitLatestDump ==
    /\ \E ys \in SUBSET DumpYears :
       \E ms \in [ys -> SUBSET DumpMonths] :
       \E fsel \in [{ym \in ys \X DumpMonths : ym[2] \in ms[ym[1]]} ->
                       SUBSET DumpFiles] :
       \E dir \in {DumpDir, NoSuchDir} :
          util = [pc |-> "call", tree |-> DumpTree(ys, ms, fsel),
                  dir |-> dir, res |-> [path |-> <<>>, err |-> NoErr]]
    /\ up = IdleUp
    /\ pt = IdlePt
    /\ fl = IdleFl
    /\ testRun = FALSE
    /\ input = [d \in Days |-> <<>>]
    /\ fs = EmptyDir
    /\ proc = IdleProc
    /\ cq = IdleCq
    /\ build = IdleBuild
    /\ rd = [d \in Days |-> IdleRd]
    /\ ch = NewChan
    /\ rg = NewRg
    /\ sorter = IdleSorter
    /\ outChan = NewChan
    /\ errChan = NewChan
    /\ comb = NewComb
    /\ w = <<>>
    /\ bg = NewBg
    /\ ctx = FALSE
    /\ faults = {}
    /\ log = NewLog

NextLatestDump == LatestDumpCall

SpecLatestDump == InitLatestDump /\ [][NextLatestDump]_vars

\* The matching files below dir/YYYY/YYYY-MM, as <<year, month, file>>.
Candidates(tree, dir) ==
    IF dir \notin DOMAIN tree THEN {}
    ELSE {c \in UNION {UNION {{<<y, m, f>> :
                                  f \in {n \in tree[Join(Join(dir, y), m)] :
                                            MatchesDump(n)}} :
                              m \in {n \in tree[Join(dir, y)] : IsMonthName(n)}} :
                       y \in {n \in tree[dir] : IsYearName(n)}} : TRUE}

\* Candidate a is in a more recent directory than b, or in the same
\* directory with a greater name.
Newer(a, b) ==
    \/ Less(b[1], a[1])
    \/ a[1] = b[1] /\ Less(b[2], a[2])
    \/ a[1] = b[1] /\ a[2] = b[2] /\ Less(b[3], a[3])

\* C27: LatestDump returns the greatest matching file name of the most
\* recent YYYY/YYYY-MM directory that has a match, passing over newer months
\* and years without one, and returns an error that is fs.ErrNotExist when
\* nothing matches or the directory does not exist.
C27_LatestMatch ==
    util.pc = "done" =>
        LET cs == Candidates(util.tree, util.dir) IN
        IF cs = {} THEN util.res.err = ErrNotExist
        ELSE /\ util.res.err = NoErr
             /\ \E c \in cs :
                   /\ util.res.path = Join(Join(Join(util.dir, c[1]), c[2]), c[3])
                   /\ \A o \in cs \ {c} : Newer(c, o)

Dir_2023_03 == B("pageview_complete/2023/2023-03")

\* The year 2023 has a month 2023-03 without a match and a month 2023-02
\* with two; LatestDump has returned the greater name of 2023-02.
C27_Witness ==
    /\ util.pc = "done" /\ util.res.err = NoErr
    /\ Dir_2023_03 \in DOMAIN util.tree
    /\ util.tree[Dir_2023_03] = {B("pageviews-20230327-user.bz2.tmp")}
    /\ B("pageview_complete/2022/2022-03") \in DOMAIN util.tree
    /\ util.res.path =
           B("pageview_complete/2023/2023-02/pageviews-20230326-user.bz2")

-----------------------------------------------------------------------------
(* upload, uploadFile (main.go)                                            *)

\* Model bound: the number of upload calls for the epoch.
MaxUploads == 2

\* qrankDest and statsDest of the epoch 2024-03-15 (main.go:161-167).
qrankDest == "public/qrank-20240315.csv.gz"
statsDest == "public/qrank-stats-20240315.json"

\* The destination of the first and of the second uploadFile call of upload.
DestOf(file) == IF file = 1 THEN qrankDest ELSE statsDest

\* uploadFile that goes on to FPutObject whatever StatObject returned.
AfterStatAlwaysPut(err) == "put"

\* uploadFile after StatObject (main.go:181-189): return nil when the stat
\* succeeded, else go on to FPutObject.
AfterStat(err) == IF err = NoErr THEN "return" ELSE "put"

\* upload that goes on to the stats file whatever the first call returned.
AfterUploadFileIgnoreErr(file, err) ==
    IF file = 1 THEN [pc |-> "stat", file |-> 2, err |-> NoErr]
    ELSE [pc |-> "done", file |-> file, err |-> err]

\* upload after an uploadFile call returned err (main.go:163-172): an error
\* is returned, after the first call the second is made, after the second
\* nil is returned.
AfterUploadFile(file, err) ==
    IF err # NoErr THEN [pc |-> "done", file |-> file, err |-> err]
    ELSE IF file = 1 THEN [pc |-> "stat", file |-> 2, err |-> NoErr]
    ELSE [pc |-> "done", file |-> file, err |-> NoErr]

upKeep == UNCHANGED <<testRun, fl, util, pt, input, rd, ch, rg, sorter, outChan,
                      errChan, comb, w, bg, ctx, build, fs, faults, proc, cq,
                      log>>

\* uploadFile returns err to upload.
UploadFileReturns(err, bucket, event) ==
    LET nx == AfterUploadFile(up.file, err) IN
    up' = [up EXCEPT !.pc = nx.pc, !.file = nx.file, !.err = nx.err,
                     !.bucket = bucket,
                     !.events = Append(up.events, <<up.file, event>>)]

\* uploadFile goes on to FPutObject, or returns nil, after StatObject
\* returned err.
StatReturns(err, event) ==
    IF AfterStat(err) = "return"
    THEN UploadFileReturns(NoErr, up.bucket, event)
    ELSE up' = [up EXCEPT !.pc = "put",
                          !.events = Append(up.events, <<up.file, event>>)]

\* upload is called and makes its first uploadFile call.
UploadCall ==
    /\ up.pc = "call"
    /\ up' = [up EXCEPT !.pc = "stat", !.file = 1]
    /\ upKeep

\* StatObject finds the object.
StatFound ==
    /\ up.pc = "stat"
    /\ DestOf(up.file) \in DOMAIN up.bucket
    /\ StatReturns(NoErr, "found")
    /\ upKeep

\* StatObject reports that there is no such object.
StatNotFound ==
    /\ up.pc = "stat"
    /\ DestOf(up.file) \notin DOMAIN up.bucket
    /\ StatReturns("NoSuchKey", "absent")
    /\ upKeep

\* StatObject fails for another reason (the storage cannot be reached, the
\* request is refused), whether the object is there or not.
StatFails ==
    /\ up.pc = "stat"
    /\ StatReturns("stat", "stat failed")
    /\ upKeep

\* FPutObject stores the file of this call under the destination.
PutSucceeds ==
    /\ up.pc = "put"
    /\ UploadFileReturns(NoErr,
                         [d \in DOMAIN up.bucket \cup {DestOf(up.file)} |->
                             IF d = DestOf(up.file) THEN up.run
                             ELSE up.bucket[d]],
                         IF DestOf(up.file) \in DOMAIN up.bucket
                         THEN "overwritten" ELSE "put")
    /\ upKeep

\* FPutObject fails and stores nothing.
PutFails ==
    /\ up.pc = "put"
    /\ UploadFileReturns("put", up.bucket, "put failed")
    /\ upKeep

\* upload is called again for the same epoch.
UploadAgain ==
    /\ up.pc = "done"
    /\ up.run < MaxUploads
    /\ up' = [up EXCEPT !.pc = "call", !.run = up.run + 1, !.file = 1,
                        !.err = NoErr, !.events = <<>>,
                        !.before = up.bucket]
    /\ upKeep

\* The bucket before the first call: empty, or holding the files of an
\* earlier upload (run 0) as far as that upload got.
InitUpload ==
    /\ \E bucket \in {[d \in {} |-> 0], [d \in {qrankDest} |-> 0],
                      [d \in {qrankDest, statsDest} |-> 0]} :
          up = [pc |-> "call", run |-> 1, file |-> 1, err |-> NoErr,
                bucket |-> bucket, before |-> bucket, events |-> <<>>]
    /\ util = IdleUtil
    /\ pt = IdlePt
    /\ fl = IdleFl
    /\ testRun = FALSE
    /\ input = [d \in Days |-> <<>>]
    /\ fs = EmptyDir
    /\ proc = IdleProc
    /\ cq = IdleCq
    /\ build = IdleBuild
    /\ rd = [d \in Days |-> IdleRd]
    /\ ch = NewChan
    /\ rg = NewRg
    /\ sorter = IdleSorter
    /\ outChan = NewChan
    /\ errChan = NewChan
    /\ comb = NewComb
    /\ w = <<>>
    /\ bg = NewBg
    /\ ctx = FALSE
    /\ faults = {}
    /\ log = NewLog

NextUpload ==
    \/ UploadCall
    \/ StatFound
    \/ StatNotFound
    \/ StatFails
    \/ PutSucceeds
    \/ PutFails
    \/ UploadAgain

SpecUpload == InitUpload /\ [][NextUpload]_vars

\* The events of the current upload call about a file.
EventsOf(file) ==
    {up.events[i][2] : i \in {k \in 1..Len(up.events) : up.events[k][1] = file}}

\* C28 as stated: an uploadFile call whose stat succeeds puts nothing, and no
\* upload overwrites an object that is in storage.
C28_NeverOverwrites ==
    \A file \in {1, 2} :
        /\ "found" \in EventsOf(file) => EventsOf(file) = {"found"}
        /\ "overwritten" \notin EventsOf(file)
        /\ DestOf(file) \in DOMAIN up.before =>
               (/\ DestOf(file) \in DOMAIN up.bucket
                /\ up.bucket[DestOf(file)] = up.before[DestOf(file)])

\* C28 amended: an uploadFile call whose stat succeeds puts nothing and
\* returns nil; an object that is in storage is overwritten only by a call
\* whose stat failed, and is never removed.
C28_OverwritesOnlyAfterStatError ==
    \A file \in {1, 2} :
        /\ "found" \in EventsOf(file) =>
               /\ EventsOf(file) = {"found"}
               /\ (up.pc = "done" /\ up.file = file) => up.err = NoErr
        /\ "overwritten" \in EventsOf(file) => "stat failed" \in EventsOf(file)
        /\ DestOf(file) \in DOMAIN up.before =>
               /\ DestOf(file) \in DOMAIN up.bucket
               /\ up.bucket[DestOf(file)] # up.before[DestOf(file)] =>
                      "stat failed" \in EventsOf(file)

\* A second upload has found both files of the first in storage and has
\* returned nil without a put.
C28_Witness ==
    /\ up.pc = "done" /\ up.run = 2 /\ up.err = NoErr
    /\ up.events = <<<<1, "found">>, <<2, "found">>>>
    /\ up.bucket = [d \in {qrankDest, statsDest} |-> 1]

\* C29: the stats file is put only after the uploadFile call for the ranking
\* file returned nil (put, or found in storage); when that call fails upload
\* returns its error and makes no call for the stats file; and storage holds
\* no stats file without the ranking file.
C29_StatsAfterRanking ==
    /\ EventsOf(2) # {} =>
           (EventsOf(1) \cap {"found", "put", "overwritten"}) # {}
    /\ "put failed" \in EventsOf(1) =>
           /\ EventsOf(2) = {}
           /\ up.pc = "done" /\ up.err = "put"
    /\ statsDest \in DOMAIN up.bucket => qrankDest \in DOMAIN up.bucket

\* The put of the ranking file has failed on an empty bucket: upload has
\* returned the error and the bucket is still empty.
C29_Witness ==
    /\ up.pc = "done" /\ up.err = "put"
    /\ up.events = <<<<1, "absent">>, <<1, "put failed">>>>
    /\ DOMAIN up.bucket = {}

-----------------------------------------------------------------------------
(* The temp file of an earlier run (SpecBuild)                             *)

\* The content of the month's temp file before the call, if there was one.
StaleTmp ==
    IF tmpPath(build.year, build.month) \in DOMAIN log.pre
    THEN log.pre[tmpPath(build.year, build.month)].data
    ELSE <<>>

\* The call has created its temp file.
TmpCreated ==
    build.pc \notin {"idle", "stat"} /\ log.started > log.preStarted

\* C30: once buildMonthlyPageviews has created its temp file, the file holds
\* only lines this run has written, whatever a temp file of an earlier run
\* held; the final file of a run that succeeds is what this run has written
\* and has no line of the earlier temp file.
C30_StaleTmpDiscarded ==
    /\ (TmpCreated /\ Exists(tmpPath(build.year, build.month))) =>
           LET data == fs[tmpPath(build.year, build.month)].data
           IN  Len(data) <= Len(w) /\ data = SubSeq(w, 1, Len(data))
    /\ BuildOk =>
           /\ MonthFile = w
           /\ \A i \in 1..Len(MonthFile) : \A j \in 1..Len(StaleTmp) :
                  MonthFile[i] # StaleTmp[j]

\* A temp file with the line "y 2" was left by an earlier run; the month has
\* been built from als 2, ang 1 and als 3 and its file has these two lines
\* only.
C30_Witness ==
    /\ BuildOk
    /\ StaleTmp = <<B("y 2") \o <<10>>>>
    /\ Len(MonthFile) = 2
    /\ MonthFile[2] = B("gsw.wikipedia/") \o <<195, 164>> \o B("gypten 5")
                      \o <<10>>

-----------------------------------------------------------------------------
(* SpecUnquoteErr: unquote called on input that may be malformed           *)

\* The pieces the inputs are made of.  Kind "plain" is text without escapes,
\* "esc" an escape of one code point, "hi" and "lo" the \u escape of a high
\* and of a low surrogate, "quote" an unescaped double quote, "ctl" a raw
\* control character, "unk" an escape with an unknown letter, "badu" a \u
\* that is not followed by four hex digits, "bs" a backslash (put last only).
ErrPieces ==
    << [lit |-> B("z"), kind |-> "plain", cp |-> 122],
       [lit |-> <<32>>, kind |-> "plain", cp |-> 32],
       [lit |-> <<127>>, kind |-> "plain", cp |-> 127],
       [lit |-> <<92>> \o B("n"), kind |-> "esc", cp |-> 10],
       [lit |-> <<92>> \o B("u00e9"), kind |-> "esc", cp |-> 233],
       [lit |-> <<92>> \o B("ud83d"), kind |-> "hi", cp |-> 55357],
       [lit |-> <<92>> \o B("ude00"), kind |-> "lo", cp |-> 56832],
       [lit |-> <<34>>, kind |-> "quote", cp |-> 0],
       [lit |-> <<31>>, kind |-> "ctl", cp |-> 0],
       [lit |-> <<0>>, kind |-> "ctl", cp |-> 0],
       [lit |-> <<92>> \o B("x"), kind |-> "unk", cp |-> 0],
       [lit |-> <<92>> \o B("U00e9"), kind |-> "unk", cp |-> 0],
       [lit |-> <<92>> \o B("u12"), kind |-> "badu", cp |-> 0],
       [lit |-> <<92>> \o B("u12G4"), kind |-> "badu", cp |-> 0],
       [lit |-> <<92>> \o B("ud83"), kind |-> "badu", cp |-> 0],
       [lit |-> <<92>>, kind |-> "bs", cp |-> 0] >>

\* The quotes around the pieces: both, none, the opening or the closing one.
Wraps == {"both", "none", "open", "close"}

\* Lists of up to MaxPieces pieces with a lone backslash in the last place
\* only.
ErrPieceLists ==
    {ps \in UNION {[1..n -> 1..Len(ErrPieces)] : n \in 0..MaxPieces} :
        \A i \in 1..(Len(ps) - 1) : ErrPieces[ps[i]].kind # "bs"}

ErrInput(wrap, ps) ==
    (IF wrap \in {"both", "open"} THEN <<34>> ELSE <<>>)
    \o Concat([i \in 1..Len(ps) |-> ErrPieces[ps[i]].lit])
    \o (IF wrap \in {"both", "close"} THEN <<34>> ELSE <<>>)

\* unquote is called again, on the input with one more piece; the result
\* of the call before is kept.
UnquoteErrLonger ==
    /\ util.pc = "done"
    /\ Len(util.pieces) < MaxPieces
    /\ \A i \in 1..Len(util.pieces) : ErrPieces[util.pieces[i]].kind # "bs"
    /\ \E p \in 1..Len(ErrPieces) :
          util' = [pc |-> "call", wrap |-> util.wrap,
                   pieces |-> Append(util.pieces, p),
                   s |-> ErrInput(util.wrap, Append(util.pieces, p)),
                   t |-> <<>>, ok |-> FALSE,
                   prevS |-> util.s, prevT |-> util.t, prevOk |-> util.ok]
    /\ utilKeep

InitUnquoteErr ==
    /\ \E wrap \in Wraps, ps \in ErrPieceLists :
          util = [pc |-> "call", wrap |-> wrap, pieces |-> ps,
                  s |-> ErrInput(wrap, ps), t |-> <<>>, ok |-> FALSE,
                  prevS |-> <<>>, prevT |-> <<>>, prevOk |-> FALSE]
    /\ up = IdleUp
    /\ pt = IdlePt
    /\ fl = IdleFl
    /\ testRun = FALSE
    /\ input = [d \in Days |-> <<>>]
    /\ fs = EmptyDir
    /\ proc = IdleProc
    /\ cq = IdleCq
    /\ build = IdleBuild
    /\ rd = [d \in Days |-> IdleRd]
    /\ ch = NewChan
    /\ rg = NewRg
    /\ sorter = IdleSorter
    /\ outChan = NewChan
    /\ errChan = NewChan
    /\ comb = NewComb
    /\ w = <<>>
    /\ bg = NewBg
    /\ ctx = FALSE
    /\ faults = {}
    /\ log = NewLog

NextUnquoteErr == UnquoteCall \/ UnquoteErrLonger

SpecUnquoteErr == InitUnquoteErr /\ [][NextUnquoteErr]_vars

\* The input does not begin and end with a double quote of its own.
NotEnclosed(s) == Len(s) < 2 \/ s[1] # 34 \/ s[Len(s)] # 34

\* The kinds of piece that make a literal malformed.
BadKinds == {"quote", "ctl", "unk", "badu", "bs"}

\* The code points the pieces from i on stand for: a high surrogate escape
\* followed by a low one stands for one code point, any other surrogate
\* escape for U+FFFD.
RECURSIVE LooseDecodedFrom(_, _)
LooseDecodedFrom(ps, i) ==
    IF i > Len(ps) THEN <<>>
    ELSE LET p == ErrPieces[ps[i]] IN
         IF p.kind = "hi" /\ i < Len(ps) /\ ErrPieces[ps[i + 1]].kind = "lo"
         THEN <<65536 + (p.cp - 55296) * 1024
                  + (ErrPieces[ps[i + 1]].cp - 56320)>>
              \o LooseDecodedFrom(ps, i + 2)
         ELSE IF p.kind \in {"hi", "lo"}
         THEN <<65533>> \o LooseDecodedFrom(ps, i + 1)
         ELSE <<p.cp>> \o LooseDecodedFrom(ps, i + 1)

\* C31: unquote returns ok = false and the empty string for input that is
\* not enclosed in double quotes and for a quoted input with an unescaped
\* double quote, a raw control character, a backslash at its end, an escape
\* with an unknown letter or a \u without four hex digits; a quoted input
\* without any of these is decoded, a surrogate escape that is not half of
\* a pair to U+FFFD.
C31_UnquoteRejects ==
    util.pc = "done" =>
        /\ NotEnclosed(util.s) => (~util.ok /\ util.t = <<>>)
        /\ (/\ util.wrap = "both"
            /\ \E i \in 1..Len(util.pieces) :
                   ErrPieces[util.pieces[i]].kind \in BadKinds)
           => (~util.ok /\ util.t = <<>>)
        /\ (/\ util.wrap = "both"
            /\ \A i \in 1..Len(util.pieces) :
                   ErrPieces[util.pieces[i]].kind \notin BadKinds)
           => (util.ok /\ Runes(util.t) = LooseDecodedFrom(util.pieces, 1))

\* unquote has decoded the literal of the lone escape \ud83d to the three
\* bytes of U+FFFD, and has then returned ok = false and the empty string
\* for the literal with the escape \x after it.
C31_Witness ==
    /\ util.pc = "done" /\ ~util.ok /\ util.t = <<>>
    /\ util.s = <<34, 92>> \o B("ud83d") \o <<92>> \o B("x") \o <<34>>
    /\ util.prevOk /\ util.prevT = <<239, 191, 189>>
    /\ util.prevS = <<34, 92>> \o B("ud83d") \o <<34>>

-----------------------------------------------------------------------------
(* paint (tilerank-builder/paint.go): the merging and the painting task    *)

\* Model bounds: the number of weekly inputs (len(tilecounts)), the number
\* of tile counts mergeTileCounts sends, and the capacity of the channel
\* (100000 in the code).
NumInputs == 2
MaxTileCounts == 4
PaintChanCap == 2

\* The key of the world tile; it is the initial tile of the painting task.
\* A receive from the closed channel yields the zero TileCount, whose key is
\* taken to be this key as well.
WorldTile == 0

\* The keys and counts of the tile counts sent.
TileKeys == {WorldTile, 1}
TileCounts == {0, 1, 2}

ErrMerge == "merge failed"
ErrTooMany == "tile appears more than N times in input"

\* paint (paint.go:174-183): the channel, the painter, the two tasks and
\* the local variables of the painting task.
NewPaint ==
    [pc |-> "wait", ret |-> NoErr,
     ch |-> [buf |-> <<>>, closed |-> FALSE], sent |-> 0,
     merge |-> "run", task |-> "run",
     merr |-> NoErr, terr |-> NoErr, gerr |-> NoErr, cancelled |-> FALSE,
     tile |-> WorldTile, counts |-> [i \in 1..NumInputs |-> 0],
     numCounts |-> 0, oob |-> FALSE,
     recv |-> <<>>, paints |-> <<>>, closes |-> 0]

ptKeep == UNCHANGED <<testRun, fl, util, up, input, rd, ch, rg, sorter,
                      outChan, errChan, comb, w, bg, ctx, build, fs, faults,
                      proc, cq, log>>

\* A task of the errgroup returns err: the group keeps its first error and
\* cancels subCtx.
groupReturn(p, err) ==
    IF err = NoErr THEN p
    ELSE [p EXCEPT !.gerr = IF @ = NoErr THEN err ELSE @, !.cancelled = TRUE]

\* mergeTileCounts sends a tile count.
MergeTilesSend ==
    /\ pt.pc = "wait" /\ pt.merge = "run"
    /\ ~pt.ch.closed
    /\ pt.sent < MaxTileCounts
    /\ Len(pt.ch.buf) < PaintChanCap
    /\ \E k \in TileKeys, c \in TileCounts :
          pt' = [pt EXCEPT !.ch.buf = Append(@, [Key |-> k, Count |-> c]),
                           !.sent = @ + 1]
    /\ ptKeep

\* mergeTileCounts closes the channel and returns nil.
MergeTilesDone ==
    /\ pt.pc = "wait" /\ pt.merge = "run"
    /\ pt' = [pt EXCEPT !.merge = "done", !.ch.closed = TRUE]
    /\ ptKeep

\* mergeTileCounts returns an error of its own, with or without closing the
\* channel.
MergeTilesFails ==
    /\ pt.pc = "wait" /\ pt.merge = "run"
    /\ \E closed \in {pt.ch.closed, TRUE} :
          pt' = [groupReturn(pt, ErrMerge) EXCEPT !.merge = "done",
                                                  !.merr = ErrMerge,
                                                  !.ch.closed = closed]
    /\ ptKeep

\* mergeTileCounts finds subCtx done and returns its error.
MergeTilesCancelled ==
    /\ pt.pc = "wait" /\ pt.merge = "run"
    /\ pt.cancelled
    /\ \E closed \in {pt.ch.closed, TRUE} :
          pt' = [groupReturn(pt, Canceled) EXCEPT !.merge = "done",
                                                  !.merr = Canceled,
                                                  !.ch.closed = closed]
    /\ ptKeep

\* The context handed to paint is cancelled, and subCtx with it.
PaintCtxCancel ==
    /\ pt.pc = "wait"
    /\ ~pt.cancelled
    /\ pt' = [pt EXCEPT !.cancelled = TRUE]
    /\ ptKeep

\* `if numCounts > 0` before painter.Paint.
PaintsRunAlways(numCounts) == TRUE

\* `if numCounts > 0` before painter.Paint (paint.go:190, 208).
PaintsRun(numCounts) == numCounts > 0

\* painter.Paint(tile, counts[:numCounts]), which returns nil: the call is
\* recorded.
callPaint(p) ==
    IF PaintsRun(p.numCounts)
    THEN [p EXCEPT !.paints =
              Append(@, [tile |-> p.tile,
                         counts |-> SubSeq(p.counts, 1, p.numCounts)])]
    ELSE p

\* `if numCounts >= len(counts)` letting one count more through.
BufferFullLate(numCounts, counts) == numCounts > Len(counts)

\* `if numCounts >= len(counts)` (paint.go:200).
BufferFull(numCounts, counts) == numCounts >= Len(counts)

\* The painting task returns err.
taskReturn(p, err) ==
    [groupReturn(p, err) EXCEPT !.task = "done", !.terr = err]

\* One turn of the loop of the painting task for the value c received, more
\* telling whether the channel was still open (paint.go:188-214).
taskRecv(p, c, more) ==
    LET p1 == IF c.Key # p.tile
              THEN [callPaint(p) EXCEPT !.numCounts = 0, !.tile = c.Key]
              ELSE p
    IN  IF c.Count > 0 /\ BufferFull(p1.numCounts, p1.counts)
        THEN taskReturn(p1, ErrTooMany)
        ELSE LET p2 == IF c.Count > 0
                       THEN IF p1.numCounts < Len(p1.counts)
                            THEN [p1 EXCEPT !.counts[p1.numCounts + 1] = c.Count,
                                            !.numCounts = @ + 1]
                            ELSE [p1 EXCEPT !.oob = TRUE,
                                            !.numCounts = @ + 1]
                       ELSE p1
             IN  IF ~more THEN taskReturn(callPaint(p2), NoErr) ELSE p2

\* case c, more := <-ch with a value in the channel.
TaskRecv ==
    /\ pt.pc = "wait" /\ pt.task = "run"
    /\ pt.ch.buf # <<>>
    /\ pt' = taskRecv([pt EXCEPT !.ch.buf = Tail(@),
                                 !.recv = Append(@, pt.ch.buf[1])],
                      pt.ch.buf[1], TRUE)
    /\ ptKeep

\* case c, more := <-ch with the channel closed and empty.
TaskRecvClosed ==
    /\ pt.pc = "wait" /\ pt.task = "run"
    /\ pt.ch.buf = <<>> /\ pt.ch.closed
    /\ pt' = taskRecv(pt, [Key |-> WorldTile, Count |-> 0], FALSE)
    /\ ptKeep

\* case <-subCtx.Done().
TaskCancelled ==
    /\ pt.pc = "wait" /\ pt.task = "run"
    /\ pt.cancelled
    /\ pt' = taskReturn(pt, Canceled)
    /\ ptKeep

\* g.Wait() returns the first error and paint returns it (paint.go:218-220).
PaintWaitFails ==
    /\ pt.pc = "wait" /\ pt.merge = "done" /\ pt.task = "done"
    /\ pt.gerr # NoErr
    /\ pt' = [pt EXCEPT !.pc = "done", !.ret = pt.gerr]
    /\ ptKeep

\* g.Wait() returns nil; painter.Close() is called and returns nil
\* (paint.go:221-224).
PaintClose ==
    /\ pt.pc = "wait" /\ pt.merge = "done" /\ pt.task = "done"
    /\ pt.gerr = NoErr
    /\ pt' = [pt EXCEPT !.pc = "done", !.ret = NoErr, !.closes = @ + 1]
    /\ ptKeep

InitPaintTask ==
    /\ pt = NewPaint
    /\ util = IdleUtil
    /\ up = IdleUp
    /\ fl = IdleFl
    /\ testRun = FALSE
    /\ input = [d \in Days |-> <<>>]
    /\ fs = EmptyDir
    /\ proc = IdleProc
    /\ cq = IdleCq
    /\ build = IdleBuild
    /\ rd = [d \in Days |-> IdleRd]
    /\ ch = NewChan
    /\ rg = NewRg
    /\ sorter = IdleSorter
    /\ outChan = NewChan
    /\ errChan = NewChan
    /\ comb = NewComb
    /\ w = <<>>
    /\ bg = NewBg
    /\ ctx = FALSE
    /\ faults = {}
    /\ log = NewLog

NextPaintTask ==
    \/ MergeTilesSend \/ MergeTilesDone \/ MergeTilesFails
    \/ MergeTilesCancelled \/ PaintCtxCancel
    \/ TaskRecv \/ TaskRecvClosed \/ TaskCancelled
    \/ PaintWaitFails \/ PaintClose

SpecPaintTask == InitPaintTask /\ [][NextPaintTask]_vars

\* The positive counts among cs from index i on.
RECURSIVE PositiveFrom(_, _)
PositiveFrom(cs, i) ==
    IF i > Len(cs) THEN <<>>
    ELSE (IF cs[i].Count > 0 THEN <<cs[i].Count>> ELSE <<>>)
         \o PositiveFrom(cs, i + 1)

\* The maximal runs of equal keys in cs from index i on, the run being
\* collected starting at index from: each run with its key and its positive
\* counts.
RECURSIVE TileRuns(_, _, _)
TileRuns(cs, from, i) ==
    IF i > Len(cs)
    THEN IF from > Len(cs) THEN <<>>
         ELSE <<[tile |-> cs[from].Key,
                 counts |-> PositiveFrom(SubSeq(cs, from, Len(cs)), 1)]>>
    ELSE IF cs[i].Key = cs[from].Key THEN TileRuns(cs, from, i + 1)
    ELSE <<[tile |-> cs[from].Key,
            counts |-> PositiveFrom(SubSeq(cs, from, i - 1), 1)]>>
         \o TileRuns(cs, i, i + 1)

\* The runs with at least one positive count.
RECURSIVE PositiveTileRuns(_)
PositiveTileRuns(runs) ==
    IF runs = <<>> THEN <<>>
    ELSE (IF Len(runs[1].counts) > 0 THEN <<runs[1]>> ELSE <<>>)
         \o PositiveTileRuns(Tail(runs))

\* The runs of the tile counts received.
ReceivedRuns == TileRuns(pt.recv, 1, 1)

\* The runs received before the last one.
EarlierRuns == SubSeq(ReceivedRuns, 1, Len(ReceivedRuns) - 1)

\* The painting task has returned nil.
TaskOk == pt.task = "done" /\ pt.terr = NoErr

\* C32 as stated: when the painting task is done, Painter.Paint has been
\* called exactly once for each maximal run of equal keys received that has
\* a count > 0, in order, with the run's positive counts.
C32_EveryRunPainted ==
    pt.task = "done" => pt.paints = PositiveTileRuns(ReceivedRuns)

\* C32: the painting task paints, once and in order, each maximal run of
\* equal keys with a count > 0 whose end it has seen, passing the run's
\* positive counts in arrival order: all the runs received when it has
\* returned nil (the channel was closed), the runs before the last one
\* while it is collecting the last one and after it has returned an error.
\* Runs with zero counts only are never painted.
C32_CompleteRunsPainted ==
    /\ TaskOk => pt.paints = PositiveTileRuns(ReceivedRuns)
    /\ ~TaskOk => pt.paints = PositiveTileRuns(EarlierRuns)
    /\ \A i \in 1..Len(pt.paints) : Len(pt.paints[i].counts) > 0

\* The counts 2, 0 for tile 1, 0 for the world tile and 1 for tile 1 were
\* received and the channel was closed: Paint was called for tile 1 with
\* <<2>> and for tile 1 with <<1>>, and the task has returned nil.
C32_Witness ==
    /\ TaskOk
    /\ pt.recv = <<[Key |-> 1, Count |-> 2], [Key |-> 1, Count |-> 0],
                   [Key |-> WorldTile, Count |-> 0], [Key |-> 1, Count |-> 1]>>
    /\ pt.paints = <<[tile |-> 1, counts |-> <<2>>],
                     [tile |-> 1, counts |-> <<1>>]>>

\* A run received has more positive counts than there are inputs.
TooManyCounts ==
    \E i \in 1..Len(ReceivedRuns) : Len(ReceivedRuns[i].counts) > NumInputs

\* C33 as stated: when the painting task has returned the error about a
\* tile that appears too often, paint returns that error and has not called
\* Painter.Close.
C33_PaintReturnsTooMany ==
    (pt.pc = "done" /\ pt.terr = ErrTooMany) =>
        (pt.ret = ErrTooMany /\ pt.closes = 0)

\* C33: as soon as a tile has been received with more positive counts than
\* there are inputs the painting task has returned the error about it, and
\* it returns that error in no other case; it never writes past the end of
\* counts; paint then returns an error without calling Painter.Close, and
\* the error is that one unless mergeTileCounts has returned an error
\* before, which paint then returns.
C33_TooManyIsAnError ==
    /\ TooManyCounts <=> pt.terr = ErrTooMany
    /\ ~pt.oob /\ pt.numCounts <= Len(pt.counts)
    /\ (pt.pc = "done" /\ pt.terr = ErrTooMany) =>
           /\ pt.closes = 0
           /\ pt.ret # NoErr
           /\ pt.ret = ErrTooMany \/ (pt.merr # NoErr /\ pt.ret = pt.merr)

\* Tile 1 was received with the counts 1, 2, 1 for two inputs: the task
\* and paint have returned the error, nothing was painted or closed.
C33_Witness ==
    /\ pt.pc = "done" /\ pt.ret = ErrTooMany /\ pt.terr = ErrTooMany
    /\ pt.recv = <<[Key |-> 1, Count |-> 1], [Key |-> 1, Count |-> 2],
                   [Key |-> 1, Count |-> 1]>>
    /\ pt.paints = <<>> /\ pt.closes = 0

-----------------------------------------------------------------------------
(* Painter (tilerank-builder/paint.go) and the tile keys it works on       *)

\* A tile is the path from the world tile to it, one of its parent's four
\* quadrants per zoom level; the keys are ordered as a pre-order depth-first
\* traversal of the tiles visits them.
Zoom(t) == Len(t)

\* Not a tile: the end of the traversal.
NoTile == <<4>>

\* tile.ToZoom(z) for z <= tile.Zoom(): the ancestor at zoom z.
ToZoom(t, z) == IF Len(t) > z THEN SubSeq(t, 1, z) ELSE t

\* t.Contains(other): other is t or lies within t.
Contains(t, other) ==
    Len(t) <= Len(other) /\ SubSeq(other, 1, Len(t)) = t

\* a < b on keys: a comes before b in pre-order; NoTile comes last.
RECURSIVE TileLess(_, _)
TileLess(a, b) ==
    IF a = <<>> THEN b # <<>>
    ELSE IF b = <<>> THEN FALSE
    ELSE a[1] < b[1] \/ (a[1] = b[1] /\ TileLess(Tail(a), Tail(b)))

\* The tile after t and all that lies within it.
RECURSIVE NextSibling(_)
NextSibling(t) ==
    IF t = <<>> THEN NoTile
    ELSE IF t[Len(t)] < 3 THEN [t EXCEPT ![Len(t)] = @ + 1]
    ELSE NextSibling(SubSeq(t, 1, Len(t) - 1))

\* t.Next(maxZoom): the tile after t in the pre-order traversal of the tiles
\* of zoom <= maxZoom, or NoTile.
TileNext(t, maxZoom) ==
    IF Len(t) < maxZoom THEN Append(t, 0)
    ELSE NextSibling(ToZoom(t, maxZoom))

\* Model bounds: the zoom handed to NewPainter (rasters have zoom <= zoom - 8)
\* and the number of Paint calls.
PainterZoom == 10
MaxPaints == 3

\* The deepest zoom of a raster: p.zoom - 8.
RasterZoom(p) == p.zoom - 8

\* The tiles painted: tiles in the first and in the last quadrant at every
\* level, down to one level below the deepest rasters.
RECURSIVE TilesAt(_)
TilesAt(z) ==
    IF z = 0 THEN {<<>>}
    ELSE {Append(t, q) : t \in TilesAt(z - 1), q \in {0, 3}}

PaintTiles == UNION {TilesAt(z) : z \in 0..(PainterZoom - 8 + 1)}

\* NewPainter (paint.go:161-167): no raster, last is the zero key.  The
\* rasters are kept as the chain of their tiles, the current raster last and
\* each raster's parent before it.
NewPainter(zoom) ==
    [pc |-> "ready", zoom |-> zoom, last |-> <<>>, raster |-> <<>>,
     panic |-> "", uniform |-> 0, n |-> 0, sorted |-> TRUE, unordered |-> <<>>]

\* NewRaster(tile, p.raster) assigned to p.raster (paint.go:271-286); the
\* check panics.
NewRaster(p, tile) ==
    IF p.raster # <<>> /\ Zoom(tile) # Zoom(p.raster[Len(p.raster)]) + 1
    THEN [p EXCEPT !.panic = "NewRaster with parent.tile"]
    ELSE IF p.raster = <<>> /\ Zoom(tile) # 0
    THEN [p EXCEPT !.panic = "NewRaster with parent=<nil>"]
    ELSE [p EXCEPT !.raster = Append(@, tile)]

\* emitRaster (paint.go:127-159): the current raster is taken off the chain;
\* it returns nil.
emitRaster(p) ==
    [p EXCEPT !.raster = SubSeq(@, 1, Len(@) - 1)]

\* for p.raster != nil && !p.raster.tile.Contains(t) { p.emitRaster() }
\* (paint.go:71-75, 104-108).
RECURSIVE emitUntilContains(_, _)
emitUntilContains(p, t) ==
    IF p.raster # <<>> /\ ~Contains(p.raster[Len(p.raster)], t)
    THEN emitUntilContains(emitRaster(p), t)
    ELSE p

\* p.writer.WriteUniform(t, uint32(p.raster.viewsPerKm2+0.5)): reading
\* p.raster panics when there is no raster; WriteUniform returns nil.
writeUniform(p) ==
    IF p.raster = <<>>
    THEN [p EXCEPT !.panic = "nil pointer dereference"]
    ELSE [p EXCEPT !.uniform = @ + 1]

\* The loop of setupRaster from tile t on (paint.go:84-93).
RECURSIVE fillTo(_, _, _)
fillTo(p, t, rasterTile) ==
    IF p.panic # "" \/ ~TileLess(t, rasterTile) THEN p
    ELSE fillTo(IF Contains(t, rasterTile) THEN NewRaster(p, t)
                ELSE writeUniform(p),
                TileNext(t, RasterZoom(p)), rasterTile)

\* The tile of the raster a tile is painted into (paint.go:57-60).
rasterTileOf(p, tile) ==
    IF Zoom(tile) >= RasterZoom(p) THEN ToZoom(tile, RasterZoom(p)) ELSE tile

\* setupRaster (paint.go:56-98).
setupRaster(p, tile) ==
    LET rasterTile == rasterTileOf(p, tile) IN
    IF p.raster # <<>> /\ rasterTile = p.raster[Len(p.raster)] THEN p
    ELSE LET p1 == emitUntilContains(p, rasterTile)
             p2 == IF p1.raster = <<>> THEN NewRaster(p1, <<>>) ELSE p1
         IN  IF p1.raster = <<>> /\ rasterTile = <<>> THEN p2
             ELSE LET p3 == fillTo(p2, TileNext(p.last, RasterZoom(p)),
                                   rasterTile)
                  IN  IF p3.panic # "" THEN p3 ELSE NewRaster(p3, rasterTile)

\* Painter.Paint (paint.go:21-54).
painterPaint(p, tile) ==
    LET p1 == setupRaster(p, tile) IN
    IF p1.panic # "" THEN [p1 EXCEPT !.pc = "panic"]
    ELSE [p1 EXCEPT !.last = tile]

\* The first loop of Painter.Close from tile t on (paint.go:103-112).
RECURSIVE closeFrom(_, _)
closeFrom(p, t) ==
    IF p.panic # "" \/ t = NoTile THEN p
    ELSE closeFrom(writeUniform(emitUntilContains(p, t)),
                   TileNext(t, RasterZoom(p)))

\* for p.raster != nil { p.emitRaster() } (paint.go:114-118).
RECURSIVE emitAll(_)
emitAll(p) == IF p.raster # <<>> THEN emitAll(emitRaster(p)) ELSE p

\* Painter.Close (paint.go:100-121); p.writer.Close() returns nil.
painterClose(p) ==
    LET p1 == closeFrom(p, TileNext(p.last, RasterZoom(p))) IN
    IF p1.panic # "" THEN [p1 EXCEPT !.pc = "panic"]
    ELSE [emitAll(p1) EXCEPT !.pc = "closed"]

\* Paint is called for a tile.
PainterPaint ==
    /\ pt.pc = "ready"
    /\ pt.n < MaxPaints
    /\ \E tile \in PaintTiles :
          pt' = [painterPaint(pt, tile) EXCEPT
                    !.n = @ + 1,
                    !.sorted = @ /\ (pt.n = 0 \/ TileLess(pt.last, tile)),
                    !.unordered = IF pt.n > 0 /\ ~TileLess(pt.last, tile)
                                   /\ pt.sorted
                                THEN <<pt.last, tile>> ELSE @]
    /\ ptKeep

\* Close is called.
PainterClose ==
    /\ pt.pc = "ready"
    /\ pt' = painterClose(pt)
    /\ ptKeep

InitPainter ==
    /\ pt = NewPainter(PainterZoom)
    /\ util = IdleUtil
    /\ up = IdleUp
    /\ fl = IdleFl
    /\ testRun = FALSE
    /\ input = [d \in Days |-> <<>>]
    /\ fs = EmptyDir
    /\ proc = IdleProc
    /\ cq = IdleCq
    /\ build = IdleBuild
    /\ rd = [d \in Days |-> IdleRd]
    /\ ch = NewChan
    /\ rg = NewRg
    /\ sorter = IdleSorter
    /\ outChan = NewChan
    /\ errChan = NewChan
    /\ comb = NewComb
    /\ w = <<>>
    /\ bg = NewBg
    /\ ctx = FALSE
    /\ faults = {}
    /\ log = NewLog

NextPainter == PainterPaint \/ PainterClose

SpecPainter == InitPainter /\ [][NextPainter]_vars

\* The chain of rasters runs from the world raster to the current one with
\* consecutive zoom levels.
ChainConsecutive ==
    \A i \in 1..Len(pt.raster) : Zoom(pt.raster[i]) = i - 1

\* C34 as stated: the check of NewRaster never fails, whatever tiles are
\* passed to Paint, and the chain of rasters has consecutive zoom levels
\* from the world raster on.
C34_ParentCheckNeverFails ==
    /\ pt.panic \notin {"NewRaster with parent.tile",
                        "NewRaster with parent=<nil>"}
    /\ ChainConsecutive

\* C34, for tiles in order: as long as every tile passed to Paint comes
\* after the one before it in the order of the keys, the check of NewRaster
\* has not failed; and in every state the chain of rasters has consecutive
\* zoom levels from the world raster on, each raster containing the next.
C34_ParentCheckHoldsInOrder ==
    /\ pt.sorted => pt.panic \notin {"NewRaster with parent.tile",
                                     "NewRaster with parent=<nil>"}
    /\ ChainConsecutive
    /\ \A i \in 2..Len(pt.raster) : Contains(pt.raster[i - 1], pt.raster[i])

\* Three tiles were painted in order, the last one a tile of zoom 3 in
\* another quadrant of the world than the one before: the chain has the
\* rasters of zoom 0, 1 and 2 above it.
C34_Witness ==
    /\ pt.pc = "ready" /\ pt.sorted /\ pt.n = 3
    /\ pt.last = <<3, 0, 3>>
    /\ pt.raster = << <<>>, <<3>>, <<3, 0>> >>

\* C40 as stated: Close never reads a raster that is not there, after any
\* sequence of Paint calls, none included, and after Close has returned the
\* chain of rasters is empty.
C40_CloseNeverDereferencesNil ==
    /\ pt.panic # "nil pointer dereference"
    /\ pt.pc = "closed" => pt.raster = <<>>

\* C40, after a Paint call: Close reads a raster that is not there exactly
\* when it is called on a painter that has not painted anything; after at
\* least one Paint call it returns (unless Paint has failed before), has
\* written a uniform raster for every tile after the last one painted, and
\* leaves the chain of rasters empty.
C40_CloseNeedsOnePaint ==
    /\ pt.panic = "nil pointer dereference" <=> (pt.pc = "panic" /\ pt.n = 0)
    /\ pt.pc = "closed" => (pt.raster = <<>> /\ pt.n > 0)

\* Close has returned after the tiles 0, 0/3 and 3/0/3 were painted: the
\* chain is empty.
C40_Witness ==
    /\ pt.pc = "closed" /\ pt.n = 3 /\ pt.sorted
    /\ pt.last = <<3, 0, 3>> /\ pt.raster = <<>>
    /\ pt.uniform > 0

-----------------------------------------------------------------------------
(* The line channel of readMonthlyPageviews (SpecBuild)                    *)

\* C35: readMonthlyPageviews closes the line channel at most once per call,
\* the channel is closed only when every day worker has returned, and no
\* day worker has sent a line on the closed channel.
C35_ClosedOnceAfterWorkers ==
    /\ log.closes <= 1
    /\ ch.closed <=> log.closes = 1
    /\ ch.closed => \A d \in Days : rd[d].pc = "done"
    /\ ~log.late
    /\ rg.pc \in {"closed", "done"} => ch.closed

\* A day worker has failed to open its log, another one has sent a line
\* and was then cancelled at its next emission, and the channel was closed
\* after both had returned.
C35_Witness ==
    /\ ch.closed /\ log.closes = 1
    /\ rg.err = "open"
    /\ \E d \in Days : rd[d].err = "open"
    /\ \E d \in Days : rd[d].err = Canceled /\ log.sent[d] # <<>>

-----------------------------------------------------------------------------
(* SpecBuildLive: buildMonthlyPageviews with every task scheduled          *)

\* The tasks are scheduled: as long as a day worker, readMonthlyPageviews,
\* the sorter with its merge, combineCounts or buildMonthlyPageviews itself
\* can take a step, one of them does.  The cancellation of the caller's
\* context is not forced.
\* Some task, or buildMonthlyPageviews itself, can take a step; ReadStep(d)
\* can be taken whenever the worker is in its loop or after it.
CanStep ==
    \/ ENABLED BuildStep
    \/ ENABLED MonthlyTask
    \/ ENABLED SorterTask
    \/ ENABLED CombineTask
    \/ \E d \in Days :
          \/ rd[d].pc \in {"scan", "last"}
          \/ ENABLED (OpenFile(d) \/ OpenFails(d) \/ ReadSend(d)
                      \/ ReadCancelled(d) \/ ReadFails(d))

\* WF_vars(TaskStep \/ BuildStep), written with CanStep as the enabling
\* condition.
SpecBuildLive ==
    SpecBuild /\ ([]<>~CanStep \/ []<><<TaskStep \/ BuildStep>>_vars)

\* Every task buildMonthlyPageviews has started has returned.
TasksReturned ==
    /\ \A d \in Days : rd[d].pc = "done"
    /\ rg.pc = "done"
    /\ comb.pc = "done"

\* C36: buildMonthlyPageviews returns in every execution, and when it has
\* started its tasks every day worker, readMonthlyPageviews and
\* combineCounts return as well.
C36_BuildTerminates ==
    /\ <>(build.pc = "done")
    /\ <>[](build.pc = "done" /\ (log.started > log.preStarted => TasksReturned))

\* The caller's context was cancelled while a day worker was blocked on the
\* full channel: the worker, the other tasks and buildMonthlyPageviews have
\* returned, the channel still full.
C36_Witness ==
    /\ build.pc = "done" /\ build.err = Canceled
    /\ TasksReturned
    /\ Len(ch.buf) = ChanCap
    /\ \E d \in Days : rd[d].err = Canceled


-----------------------------------------------------------------------------
(* SpecReadTitles: one readPageviews call on rows whose titles carry white *)
(* space, '+' and percent-escapes                                          *)

\* An incubator row whose language segment decodes to "a b", one whose
\* language segment decodes to "a<TAB>b", a plain incubator row, a title
\* with '+' and %20 (both decode to a space), a title with an escaped '+'
\* and an escaped tab, and a row of the test data.
LineIncSpace == B("incubator.wikimedia Wp/a+b/c 1 desktop 2 A1")
LineIncTab == B("incubator.wikimedia Wp/a%09b/c 1 desktop 2 A1")
LineIncPlain == B("incubator.wikimedia Wp/cpx/T 1 desktop 1 A1")
LineSpaces == B("en.wikipedia A+b%20c 1 desktop 3 A1")
LinePlusTab == B("en.wikipedia A%2Bb%09c 1 desktop 1 A1")

TitleLines == {LineIncSpace, LineIncTab, LineIncPlain, LineSpaces, LinePlusTab,
               LineAls2}

InitReadTitles == InitReadFrom(TitleLines)

SpecReadTitles == InitReadTitles /\ [][NextRead]_vars

\* cols := strings.Split(line, " "); len(cols) == 2 (main.go:425-426).
TwoFields(line) == Len(Split(line, 32)) = 2

\* strconv.ParseInt accepts the text after the last space of the line.
CountParses(line) ==
    LET cols == Split(line, 32) IN ParseIntOk(cols[Len(cols)])

\* A row that reaches emitPageviews with lang "incubator" and a title
\* Wp/<lang>/<rest> whose <lang> is shorter than 20 bytes and has a space.
SpacedIncubatorRow(l) ==
    LET row == parseRow(l)
        dot == IndexByte(row.site, 46)
        parts == SplitN3(row.title)
    IN  /\ row.ok
        /\ dot >= 0
        /\ Slice(row.site, 0, dot) = S["incubator"]
        /\ Len(parts) = 3
        /\ parts[1] \in {S["Wp"], S["wp"]}
        /\ Len(parts[2]) < 20
        /\ \E k \in 1..Len(parts[2]) : parts[2][k] = 32

\* C37 as claimed: every line emitPageviews has sent splits into exactly two
\* fields at ASCII spaces and its second field parses as an int64, whatever
\* title the row carried.
C37_EveryLineTwoFields ==
    \A i \in 1..Len(log.sent[1]) :
        TwoFields(log.sent[1][i]) /\ CountParses(log.sent[1][i])

\* C37, what the code keeps: the text after the last space of every sent
\* line parses as an int64, and a sent line has exactly two fields unless
\* the log has an incubator row whose language segment holds a space.
C37_TwoFieldsButIncubatorLang ==
    \A i \in 1..Len(log.sent[1]) :
        /\ CountParses(log.sent[1][i])
        /\ ~TwoFields(log.sent[1][i]) =>
              \E k \in 1..Len(input[1]) : SpacedIncubatorRow(input[1][k])

\* Three rows with spaces, a tab and a '+' in the title and a tab in the
\* incubator language have been read to the end: three lines of two fields.
C37_Witness ==
    /\ ReadDone(1)
    /\ input[1] = <<LineSpaces, LinePlusTab, LineIncTab>>
    /\ Len(log.sent[1]) = 3
    /\ \A i \in 1..3 : TwoFields(log.sent[1][i])
    /\ log.sent[1][1] = B("en.wikipedia/a_b_c 3")


-----------------------------------------------------------------------------
(* SpecBuildTitles: one buildMonthlyPageviews call on logs whose titles    *)
(* carry white space, '+' and percent-escapes                              *)

\* The daily logs of the month: a title with spaces on both days; an
\* incubator page whose language segment has a space, next to other pages;
\* that incubator page on both days.
TitleMonthLogs ==
    { <<<<LineSpaces, LineAls2>>, <<LineSpaces>>>>,
      <<<<LineIncSpace, LineAls2>>, <<LinePlusTab>>>>,
      <<<<LineIncSpace>>, <<LineIncSpace>>>> }

InitBuildTitles ==
    /\ testRun = FALSE
    /\ \E logs \in TitleMonthLogs :
          input = [d \in Days |-> IF d <= 2 THEN logs[d] ELSE <<>>]
    /\ fs \in OutDirs
    /\ build = NewBuild(BuildDate.y, BuildDate.m)
    /\ rd = [d \in Days |-> IdleRd]
    /\ ch = NewChan
    /\ rg = NewRg
    /\ sorter = IdleSorter
    /\ outChan = NewChan
    /\ errChan = NewChan
    /\ comb = NewComb
    /\ w = <<>>
    /\ bg = NewBg
    /\ ctx = FALSE
    /\ faults = {}
    /\ proc = IdleProc
    /\ cq = IdleCq
    /\ fl = IdleFl
    /\ util = IdleUtil
    /\ up = IdleUp
    /\ pt = IdlePt
    /\ log = [NewLog EXCEPT !.pre = fs]

SpecBuildTitles == InitBuildTitles /\ [][NextBuild]_vars

\* The lines the workers of days 1..n have sent, day after day.
RECURSIVE AllSent(_)
AllSent(n) == IF n = 0 THEN <<>> ELSE AllSent(n - 1) \o log.sent[n]

\* The count a line "<key> <count>" carries: the number after its last space.
LastCount(line) ==
    LET cols == Split(line, 32) IN ParseIntVal(cols[Len(cols)])

\* The sum of the counts of these lines.
RECURSIVE TotalOf(_)
TotalOf(lines) ==
    IF lines = <<>> THEN 0 ELSE LastCount(Head(lines)) + TotalOf(Tail(lines))

\* The sum of the counts of the lines "<key> <count>\n" of a file.
FileTotal(data) ==
    TotalOf([i \in 1..Len(data) |-> SubSeq(data[i], 1, Len(data[i]) - 1)])

\* How often x occurs in a sequence.
Occurrences(q, x) == Cardinality({i \in 1..Len(q) : q[i] = x})

\* The combiner has received every line the day workers have sent exactly
\* as often as it was sent.
AllReceivedOnce ==
    /\ Len(log.recv) = Len(AllSent(NumDays))
    /\ \A i \in 1..Len(log.recv) :
          Occurrences(log.recv, log.recv[i])
              = Occurrences(AllSent(NumDays), log.recv[i])

\* C38 as claimed: in a call that completes without error the combiner has
\* received every emitted line exactly once, and the counts of the month's
\* file add up to the counts of all lines the day workers have emitted, for
\* every interleaving.
C38_NoLineLost ==
    BuildOk =>
        /\ AllReceivedOnce
        /\ FileTotal(MonthFile) = TotalOf(AllSent(NumDays))

\* C38, what the code keeps: in a call that completes without error the
\* combiner has received every emitted line exactly once, and the counts of
\* the month's file add up to the counts of the emitted lines that split
\* into exactly two fields at spaces.
C38_TwoFieldLinesKept ==
    BuildOk =>
        /\ AllReceivedOnce
        /\ FileTotal(MonthFile)
              = TotalOf(SelectSeq(AllSent(NumDays), TwoFields))

\* The month of two days with one page on both and another page on day 1
\* has been built: three lines emitted, two lines in the file, total 8.
C38_Witness ==
    /\ BuildOk
    /\ input[1] = <<LineSpaces, LineAls2>> /\ input[2] = <<LineSpaces>>
    /\ Len(AllSent(NumDays)) = 3
    /\ Len(MonthFile) = 2
    /\ FileTotal(MonthFile) = 8
    /\ TotalOf(AllSent(NumDays)) = 8


-----------------------------------------------------------------------------
(* SpecFormatAlias: formatLine on alias spellings, passed as lang and      *)
(* carried by an incubator title                                           *)

\* The spellings of the alias table, incubator, and two langs the switch
\* does not list.
AliasLangs ==
    UNION {a[1] : a \in AliasTable} \cup {S["incubator"], B("en"), B("cpx")}

\* A plain title, and incubator titles whose language segment is a lang the
\* switch does not list, three alias spellings, and az.
AliasTitles ==
    {B("Foo"), B("Wp/cpx/Foo"), B("Wp/als/Foo"), B("wp/zh-yue/Foo"),
     B("Wp/bat_smg/Foo"), B("Wp/az/BAKI")}

InitFormatAlias ==
    /\ \E lang \in AliasLangs, title \in AliasTitles :
          fl = [IdleFl EXCEPT !.pc = "call", !.lang = lang,
                              !.site = B("wikipedia"), !.title = title,
                              !.value = B("Q1")]
    /\ testRun = FALSE
    /\ input = [d \in Days |-> <<>>]
    /\ fs = EmptyDir
    /\ proc = IdleProc
    /\ cq = IdleCq
    /\ util = IdleUtil
    /\ up = IdleUp
    /\ pt = IdlePt
    /\ build = IdleBuild
    /\ rd = [d \in Days |-> IdleRd]
    /\ ch = NewChan
    /\ rg = NewRg
    /\ sorter = IdleSorter
    /\ outChan = NewChan
    /\ errChan = NewChan
    /\ comb = NewComb
    /\ w = <<>>
    /\ bg = NewBg
    /\ ctx = FALSE
    /\ faults = {}
    /\ log = NewLog

\* After a call for the incubator with a title <Wp>/<lang>/<rest>, the page
\* is reached directly: formatLine is called with <lang> and <rest>; the
\* line of the incubator call is kept.
FormatDirect ==
    /\ fl.pc = "done"
    /\ fl.lang = S["incubator"]
    /\ Len(SplitN3(fl.title)) = 3
    /\ fl' = [fl EXCEPT !.pc = "call",
                        !.lang = SplitN3(fl.title)[2],
                        !.title = SplitN3(fl.title)[3],
                        !.line = <<>>,
                        !.prevLang = fl.lang, !.prevLine = fl.line]
    /\ flKeep

NextFormatAlias == FormatCall \/ FormatDirect

SpecFormatAlias == InitFormatAlias /\ [][NextFormatAlias]_vars

\* The language part of a line: what stands before its first '.'.
LangPart(line) == Slice(line, 0, IndexByte(line, 46))

\* C39 as claimed: the language part of every line of formatLine is never a
\* spelling the alias table rewrites, also when the language came from an
\* incubator title, and the page reached directly gets the line the
\* incubator call gave.
C39_LangAlwaysCanonical ==
    fl.pc = "done" =>
        /\ ~IsAlias(LangPart(fl.line))
        /\ fl.prevLang = S["incubator"] => fl.line = fl.prevLine

\* C39, what the code keeps: the language part of a line is a spelling of
\* the alias table only when the call was for the incubator (the language
\* taken from the title does not pass the switch again), and the page
\* reached directly gets the line of the incubator call when its language is
\* none the switch lists.
C39_DirectLangCanonical ==
    fl.pc = "done" =>
        /\ IsAlias(LangPart(fl.line)) => fl.lang = S["incubator"]
        /\ (fl.prevLang = S["incubator"] /\ fl.lang \notin SwitchLangs) =>
               fl.line = fl.prevLine

\* Wp/cpx/Foo has been formatted for the incubator and then as the page Foo
\* of cpx: both calls gave cpx.wikipedia/foo.
C39_Witness ==
    /\ fl.pc = "done"
    /\ fl.prevLang = S["incubator"]
    /\ fl.lang = B("cpx")
    /\ fl.title = B("Foo")
    /\ fl.line = B("cpx.wikipedia/foo Q1")
    /\ fl.prevLine = fl.line

====
